---- MODULE Spec2Model ----
(***************************************************************************)
(* Trigger matching and rate limiting of the chat bot:                     *)
(* UltimateTriggersSystem in app/modules/ultimate_triggers.py.             *)
(*                                                                         *)
(* A message text is a sequence of symbols (one-character strings).        *)
(* Time is an integer clock `now`; a calendar date is now \div DayLen.     *)
(* A probability is kept in percent (100 stands for 1.0).                  *)
(***************************************************************************)
EXTENDS Integers, Sequences, FiniteSets, TLC

VARIABLES
    now,             \* datetime.now(), in ticks
    triggers_cache,  \* self.triggers_cache: chat id -> list of TriggerConfig
    cooldowns,       \* table trigger_cooldowns: <<trigger, chat, user>> -> expires_at
    usage,           \* table trigger_usage_log per day: <<trigger, chat, date>> -> count
    calls,           \* the process_message invocations in flight, by slot
    ncalls,          \* number of process_message invocations started so far
    fireTimes,       \* history: <<trigger, chat, user>> -> time of the latest fire
    fireCount,       \* history: <<trigger, chat, date>> -> number of fires that date
    ai,              \* self.ai: "none", or how the classifier answers generate_response
    db,              \* table ultimate_triggers: chat id -> list of rows
    creates,         \* the create_trigger invocations in flight, by slot
    bot_triggers,    \* EnhancedTelegramBot.triggers['global'], and the last answer sent
    rendering,       \* the _process_response_variables call under study
    checking         \* the _check_condition call under study

vars == <<now, triggers_cache, cooldowns, usage, calls, ncalls, fireTimes, fireCount,
          ai, db, creates, bot_triggers, rendering, checking>>

----------------------------------------------------------------------------
(* Bounds of the model *)

MaxTime == 4
DayLen == 3
MaxCalls == 3
MaxConcurrentCalls == 2

Chats == {1}
Users == {1, 2}
Slots == {1, 2}

\* A probability that is not a number (None, or a str passed through
\* **options): comparing it with 1.0 raises TypeError.
NotNumeric == -1

\* The values random.random() is drawn from, in percent of [0,1).
Draws == {0, 50, 99}

Today(t) == t \div DayLen

----------------------------------------------------------------------------
(* Texts *)

\* The lower-case form of a symbol; of the symbols used, H and I are upper case
Lower(c) == CASE c = "H" -> "h"
              [] c = "I" -> "i"
              [] OTHER -> c

\* Mutation: str.lower() leaves the text as it is
LowerSeqKeepsCase(s) == s

\* s.lower()
LowerSeq(s) == [i \in 1..Len(s) |-> Lower(s[i])]

IsWordChar(c) == c \in {"h", "i", "y", "o", "H", "I"}

\* s.startswith(p)
StartsWith(s, p) == Len(p) <= Len(s) /\ SubSeq(s, 1, Len(p)) = p

\* s.endswith(p)
EndsWith(s, p) == Len(p) <= Len(s) /\ SubSeq(s, Len(s) - Len(p) + 1, Len(s)) = p

\* p occurs in s starting at position i (1-based)
OccursAt(s, p, i) == i + Len(p) - 1 <= Len(s) /\ SubSeq(s, i, i + Len(p) - 1) = p

\* p in s
Contains(s, p) == \E i \in 1..(Len(s) + 1) : OccursAt(s, p, i)

\* the regex assertion \b between position i-1 and position i of s
WordBoundary(s, i) ==
    LET before == i > 1 /\ i - 1 <= Len(s) /\ IsWordChar(s[i - 1])
        after == i >= 1 /\ i <= Len(s) /\ IsWordChar(s[i])
    IN before # after

\* re.search(r'\b' + re.escape(p) + r'\b', s)
WholeWordSearch(s, p) ==
    \E i \in 1..(Len(s) + 1) :
        /\ OccursAt(s, p, i)
        /\ WordBoundary(s, i)
        /\ WordBoundary(s, i + Len(p))

\* The characters str.split() separates at
IsSpace(c) == c \in {" ", "\t", "\n"}

\* The scan of s.split() from position i on: `word` is the word being read
\* and `words` the list of those read so far
RECURSIVE SplitFrom(_, _, _, _)
SplitFrom(s, i, word, words) ==
    IF i > Len(s)
    THEN IF word = <<>> THEN words ELSE Append(words, word)
    ELSE IF IsSpace(s[i])
         THEN SplitFrom(s, i + 1, <<>>, IF word = <<>> THEN words ELSE Append(words, word))
         ELSE SplitFrom(s, i + 1, Append(word, s[i]), words)

\* Mutation: the pattern is taken as one keyword
SplitWhole(s) == <<s>>

\* s.split(): the list of the words of s
Split(s) == SplitFrom(s, 1, <<>>, <<>>)

----------------------------------------------------------------------------
(* _check_condition *)

\* How a configured classifier answers generate_response: with a text that
\* holds 'да', with one that does not, with None or an empty text, or by
\* raising (a timeout of the call included).
AiReplies == {"da", "net", "empty", "raises"}

\* `if self.ai`: whether a classifier was passed to the constructor.
\* UltimateBotSystem builds the system without one.
AiConfigured == ai # "none"

\* `import re` inside the function body makes `re` a local name of the whole
\* function, bound only once the whole-words branch has run: the REGEX branch
\* reads it unbound, which raises UnboundLocalError.
ReIsBoundInRegexBranch == FALSE

\* The body of the try block; "error" stands for a raised exception.
CheckConditionBody(condition, text) ==
    LET pattern == condition.pattern
        check_text == IF condition.case_sensitive THEN text ELSE LowerSeq(text)
        check_pattern == IF condition.case_sensitive THEN pattern ELSE LowerSeq(pattern)
    IN CASE condition.type = "exact" ->
                IF check_text = check_pattern THEN "true" ELSE "false"
         [] condition.type = "contains" ->
                IF condition.whole_words
                THEN IF WholeWordSearch(check_text, check_pattern) THEN "true" ELSE "false"
                ELSE IF Contains(check_text, check_pattern) THEN "true" ELSE "false"
         [] condition.type = "starts" ->
                IF StartsWith(check_text, check_pattern) THEN "true" ELSE "false"
         [] condition.type = "ends" ->
                IF EndsWith(check_text, check_pattern) THEN "true" ELSE "false"
         [] condition.type = "regex" ->
                IF ReIsBoundInRegexBranch THEN "false" ELSE "error"
         [] condition.type = "smart" ->
                IF AiConfigured
                THEN CASE ai = "da" -> "true"
                       [] ai = "raises" -> "error"
                       [] OTHER -> "false"
                ELSE LET keywords == Split(LowerSeq(pattern))
                     IN IF \E k \in 1..Len(keywords) :
                              Contains(LowerSeq(text), keywords[k])
                        THEN "true" ELSE "false"
         [] OTHER -> "false"

\* Mutation: an exception is reported as a match
CheckConditionErrorMatches(condition, text) == CheckConditionBody(condition, text) # "false"

\* _check_condition: any exception is logged and reported as no match
CheckCondition(condition, text) == CheckConditionBody(condition, text) = "true"

----------------------------------------------------------------------------
(* Trigger definitions: TriggerCondition, TriggerResponse, TriggerConfig *)

Hi == <<"h", "i">>
Yo == <<"y", "o">>
HiYo == <<"h", "i", " ", "y", "o">>

Texts == {Yo, HiYo}

Condition(type, pattern) ==
    [type |-> type, pattern |-> pattern, case_sensitive |-> FALSE, whole_words |-> FALSE]

\* forward_to 0 stands for None
Response(text) ==
    [text |-> text, reactions |-> <<>>, delete_trigger |-> FALSE, forward_to |-> 0]

RespA == Response(<<"a">>)
RespB == Response(<<"b">>)
RespC == Response(<<"c", "{user_id}">>)

\* The dataclass defaults of TriggerConfig, with one condition and one response
\* as create_trigger builds it.
Config(id, condition, response) ==
    [id |-> id, name |-> <<id>>, chat_id |-> 1, creator_id |-> 1,
     conditions |-> <<condition>>, responses |-> <<response>>,
     is_active |-> TRUE, cooldown_seconds |-> 0, max_uses_per_day |-> 0,
     probability |-> 100, require_mention |-> FALSE, admin_only |-> FALSE]

PlainA == Config("tA", Condition("contains", Hi), RespA)
PlainB == Config("tB", Condition("contains", Yo), RespB)

\* The first trigger of the chat's list
FirstConfigs ==
    { PlainA,
      [PlainA EXCEPT !.cooldown_seconds = 2],
      [PlainA EXCEPT !.max_uses_per_day = 2],
      [PlainA EXCEPT !.cooldown_seconds = 1, !.max_uses_per_day = 1],
      [PlainA EXCEPT !.probability = 50],
      [PlainA EXCEPT !.probability = 0, !.cooldown_seconds = 2, !.max_uses_per_day = 2],
      [PlainA EXCEPT !.admin_only = TRUE, !.cooldown_seconds = 2],
      [PlainA EXCEPT !.require_mention = TRUE, !.max_uses_per_day = 1],
      [PlainA EXCEPT !.is_active = FALSE],
      [PlainA EXCEPT !.probability = NotNumeric],
      [PlainA EXCEPT !.conditions = <<Condition("contains", Yo), Condition("contains", Hi)>>,
                     !.responses = <<RespA, RespC>>, !.cooldown_seconds = 2] }

\* The second trigger of the chat's list
SecondConfigs ==
    { PlainB,
      [PlainB EXCEPT !.conditions = <<Condition("exact", Hi), Condition("starts", Hi),
                                      Condition("ends", Yo)>>,
                     !.max_uses_per_day = 1],
      [PlainB EXCEPT !.probability = NotNumeric] }

Registries == { <<a, b>> : a \in FirstConfigs, b \in SecondConfigs }

----------------------------------------------------------------------------
(* _process_response_variables *)

\* Whether the module-level name `random` is bound when the variables are
\* built: the module never imports it (process_message imports it into its
\* own local scope only), so building the dict raises NameError, which the
\* except clause answers by returning the response it was given.
RandomIsBound == FALSE

\* A template is a sequence of symbols in which a placeholder such as
\* "{user_id}" is one symbol; the values put in are sequences of characters.
SupportedPlaceholders ==
    {"{user_id}", "{chat_id}", "{trigger_text}", "{time}", "{date}", "{random}"}

\* str(n) of a natural number, and of any integer
RECURSIVE StrNat(_)
StrNat(n) == IF n < 10 THEN <<ToString(n)>> ELSE StrNat(n \div 10) \o <<ToString(n % 10)>>

Str(n) == IF n < 0 THEN <<"-">> \o StrNat(0 - n) ELSE StrNat(n)

\* the strftime fields %H, %M, %d, %m (two digits) and %Y
Pad2(n) == <<ToString(n \div 10), ToString(n % 10)>>

\* datetime.now().strftime('%H:%M')
FormatTime(clock) == Pad2(clock.hour) \o <<":">> \o Pad2(clock.minute)

\* datetime.now().strftime('%d.%m.%Y')
FormatDate(clock) ==
    Pad2(clock.day) \o <<".">> \o Pad2(clock.month) \o <<".">> \o StrNat(clock.year)

\* text.replace(var, value)
RECURSIVE Replace(_, _, _)
Replace(text, var, value) ==
    IF text = <<>> THEN <<>>
    ELSE (IF Head(text) = var THEN value ELSE <<Head(text)>>)
         \o Replace(Tail(text), var, value)

\* The dict `variables`, in the order of its keys; rnd is what
\* random.randint(1, 100) returns
Variables(chat_id, user_id, trigger_text, clock, rnd) ==
    << <<"{user_id}", Str(user_id)>>,
       <<"{chat_id}", Str(chat_id)>>,
       <<"{trigger_text}", trigger_text>>,
       <<"{time}", FormatTime(clock)>>,
       <<"{date}", FormatDate(clock)>>,
       <<"{random}", Str(rnd)>> >>

\* for var, value in variables.items(): one replace after the other, each
\* over the text the one before has left
RECURSIVE ReplaceAll(_, _, _)
ReplaceAll(text, variables, k) ==
    IF k > Len(variables) THEN text
    ELSE ReplaceAll(Replace(text, variables[k][1], variables[k][2]), variables, k + 1)

\* _process_response_variables: a new TriggerResponse with the processed
\* text and the other fields of the response it was given; when building the
\* dict raises, the response it was given
ProcessResponseVariables(response, chat_id, user_id, trigger_text, clock, rnd) ==
    IF RandomIsBound
    THEN [text |-> ReplaceAll(response.text,
                       Variables(chat_id, user_id, trigger_text, clock, rnd), 1),
          reactions |-> response.reactions,
          delete_trigger |-> response.delete_trigger,
          forward_to |-> response.forward_to]
    ELSE response

\* Mutation: the processed text is written into the response given
StoredWrittenInPlace(response, chat_id, user_id, trigger_text, clock, rnd) ==
    [response EXCEPT !.text = ReplaceAll(response.text,
                         Variables(chat_id, user_id, trigger_text, clock, rnd), 1)]

\* What the call leaves of the response it was given, which is the object
\* the trigger holds: processed_text is a local and the response is only read
StoredAfterRendering(response, chat_id, user_id, trigger_text, clock, rnd) == response

\* datetime.now() at the tick t, as a wall clock
ClockAt(t) == [hour |-> 9 + t, minute |-> 5, day |-> 4 + Today(t), month |-> 11, year |-> 2026]

\* The values random.randint(1, 100) is drawn from
RandomInts == {1, 100}

----------------------------------------------------------------------------
(* The rate limiter's storage *)

\* Mutation: the cooldown is kept per trigger and chat, for all users alike
CooldownKeyWithoutUser(trigger_id, chat_id, user_id) == <<trigger_id, chat_id, 0>>

CooldownKey(trigger_id, chat_id, user_id) == <<trigger_id, chat_id, user_id>>
UsageKey(trigger_id, chat_id, date) == <<trigger_id, chat_id, date>>

\* _is_on_cooldown: a cooldown entry that has not expired yet exists
IsOnCooldown(trigger_id, chat_id, user_id) ==
    LET key == CooldownKey(trigger_id, chat_id, user_id)
    IN key \in DOMAIN cooldowns /\ now < cooldowns[key]

\* _get_today_usage: the fires counted for the trigger in the chat today
GetTodayUsage(trigger_id, chat_id) ==
    LET key == UsageKey(trigger_id, chat_id, Today(now))
    IN IF key \in DOMAIN usage THEN usage[key] ELSE 0

\* f with key mapped to value
Put(f, key, value) ==
    [k \in DOMAIN f \cup {key} |-> IF k = key THEN value ELSE f[k]]

\* _set_cooldown: the entry expires at now + seconds
SetCooldownEntry(trigger_id, chat_id, user_id, seconds) ==
    Put(cooldowns, CooldownKey(trigger_id, chat_id, user_id), now + seconds)

\* _update_trigger_stats: one more use today
UpdateTriggerStats(trigger_id, chat_id, user_id) ==
    Put(usage, UsageKey(trigger_id, chat_id, Today(now)),
        GetTodayUsage(trigger_id, chat_id) + 1)

\* _get_chat_triggers: the chat's list in the cache
GetChatTriggers(chat_id) ==
    IF chat_id \in DOMAIN triggers_cache THEN triggers_cache[chat_id] ELSE <<>>

----------------------------------------------------------------------------
(* process_message, one step per suspension point *)

Range(q) == { q[i] : i \in 1..Len(q) }

\* A slot with no invocation in it.  `out` is the list triggered_responses
\* being built and `result` the list returned.  The fields from `at` on are
\* history: what the invocation did and the state it started from; `reads`
\* holds the lookups it issued, as <<index of the trigger, table>>, and
\* `drawn` the values random.random() gave it, as <<index of the trigger, draw>>.
IdleCall ==
    [pc |-> "idle", chat_id |-> 0, user_id |-> 0, text |-> <<>>,
     is_mention |-> FALSE, is_admin |-> FALSE,
     triggers |-> <<>>, idx |-> 0, cidx |-> 0, out |-> <<>>, result |-> <<>>,
     at |-> 0, fired |-> <<>>, out_src |-> <<>>, result_src |-> <<>>,
     skipped |-> {}, writes |-> <<>>, evaluated |-> <<>>, matched |-> {},
     aborted |-> FALSE, reads |-> {}, drawn |-> <<>>,
     pre_fire |-> <<>>, pre_count |-> <<>>, pre_cooldowns |-> <<>>, pre_usage |-> <<>>,
     pre_created |-> {}]

InFlight(s) == calls[s].pc # "idle"

\* The **options of create_trigger when none is given
DefaultOptions ==
    [cooldown |-> 0, max_uses |-> 0, probability |-> 100,
     require_mention |-> FALSE, admin_only |-> FALSE]

\* A slot with no create_trigger invocation in it.  `inserted` is history:
\* whether the invocation wrote a row.
IdleCreate ==
    [pc |-> "idle", name |-> <<>>, chat_id |-> 0, creator_id |-> 0,
     pattern |-> <<>>, response |-> <<>>, trigger_type |-> "",
     options |-> DefaultOptions, trigger_id |-> <<>>, result |-> "",
     inserted |-> FALSE]

\* No _process_response_variables call made yet
IdleRendering == [pc |-> "idle"]

\* No _check_condition call made yet
IdleChecking == [pc |-> "idle"]

\* The state of the dispatch when no message is being handled
NoDispatch ==
    /\ now = 0
    /\ triggers_cache = [chat \in Chats |-> <<>>]
    /\ cooldowns = <<>>
    /\ usage = <<>>
    /\ calls = [s \in Slots |-> IdleCall]
    /\ ncalls = 0
    /\ fireTimes = <<>>
    /\ fireCount = <<>>
    /\ ai = "none"

\* EnhancedTelegramBot with no trigger yet.  `global` is the dict
\* self.triggers['global'] in the order of its keys, `reply` the answer of
\* the last command; `op`, `user_id`, `owned` and `changed` are history: the
\* last command, its sender, the number of triggers the sender owned when
\* the command came, and whether the command changed the dict.
IdleBot ==
    [global |-> <<>>, reply |-> "", op |-> "", user_id |-> 0, owned |-> 0,
     changed |-> FALSE]

\* The parts of the state that the dispatch of messages does not use
NoCrud ==
    /\ creates = [s \in Slots |-> IdleCreate]
    /\ bot_triggers = IdleBot
    /\ rendering = IdleRendering
    /\ checking = IdleChecking

\* `continue`, or the end of the for loop body: the next trigger, or the return
NextTrigger(c) ==
    IF c.idx < Len(c.triggers)
    THEN [c EXCEPT !.idx = c.idx + 1, !.cidx = 0, !.pc = "gates"]
    ELSE [c EXCEPT !.pc = "done", !.result = c.out, !.result_src = c.out_src]

\* `continue` at one of the gates
Skip(c, gate) == NextTrigger([c EXCEPT !.skipped = c.skipped \cup {<<c.idx, gate>>}])

\* except Exception: log and return []
Abort(c) == [c EXCEPT !.pc = "done", !.result = <<>>, !.result_src = <<>>, !.aborted = TRUE]

\* History: the triggers of the chat whose create_trigger has written its
\* row and returned
ReturnedCreates(chat_id) ==
    { creates[o].trigger_id : o \in { x \in Slots :
        /\ creates[x].pc = "returned" /\ creates[x].inserted
        /\ creates[x].chat_id = chat_id } }

\* The call with process_message's arguments, for a message of one of the
\* given chats, before the first trigger
StartIn(s, chats) ==
    /\ calls[s].pc = "idle"
    /\ ncalls < MaxCalls
    /\ \E chat_id \in chats, user_id \in Users, text \in Texts,
          is_mention \in BOOLEAN, is_admin \in BOOLEAN :
         LET triggers == GetChatTriggers(chat_id)
             c == [IdleCall EXCEPT
                      !.chat_id = chat_id, !.user_id = user_id, !.text = text,
                      !.is_mention = is_mention, !.is_admin = is_admin,
                      !.triggers = triggers, !.idx = 0,
                      !.at = now, !.pre_fire = fireTimes, !.pre_count = fireCount,
                      !.pre_cooldowns = cooldowns, !.pre_usage = usage,
                      !.pre_created = ReturnedCreates(chat_id)]
         IN calls' = [calls EXCEPT ![s] = NextTrigger(c)]
    /\ ncalls' = ncalls + 1
    /\ UNCHANGED <<now, triggers_cache, cooldowns, usage, fireTimes, fireCount,
                   ai, db, creates, bot_triggers, rendering, checking>>

\* The call for a message of the one chat of most checks
Start(s) == StartIn(s, Chats)

\* History: the invocation has issued a lookup for the trigger at hand
Looked(c, table) == [c EXCEPT !.reads = c.reads \cup {<<c.idx, table>>}]

\* History: random.random() has returned d for the trigger at hand
Drew(c, d) == [c EXCEPT !.drawn = Append(c.drawn, <<c.idx, d>>)]

\* Mutation: a rejected draw is noted, yet the use is still recorded
ProbabilityGateRecordsRejected(c, trigger, d) ==
    IF trigger.probability = NotNumeric
    THEN Abort(c)
    ELSE IF trigger.probability < 100
         THEN IF d > trigger.probability
              THEN [Drew(c, d) EXCEPT
                        !.skipped = c.skipped \cup {<<c.idx, "probability">>},
                        !.pc = "stats"]
              ELSE [Drew(c, d) EXCEPT !.pc = "match", !.cidx = 1]
         ELSE [c EXCEPT !.pc = "match", !.cidx = 1]

\* Mutation: the draw compared with >= instead of >
ProbabilityGateRejectsEqual(c, trigger, d) ==
    IF trigger.probability = NotNumeric
    THEN Abort(c)
    ELSE IF trigger.probability < 100
         THEN IF d >= trigger.probability
              THEN Skip(Drew(c, d), "probability")
              ELSE [Drew(c, d) EXCEPT !.pc = "match", !.cidx = 1]
         ELSE [c EXCEPT !.pc = "match", !.cidx = 1]

\* The probability gate: random.random() is called, and its draw d compared,
\* only when probability < 1.0; a probability that is no number raises
\* TypeError at that comparison.
ProbabilityGate(c, trigger, d) ==
    IF trigger.probability = NotNumeric
    THEN Abort(c)
    ELSE IF trigger.probability < 100
         THEN IF d > trigger.probability
              THEN Skip(Drew(c, d), "probability")
              ELSE [Drew(c, d) EXCEPT !.pc = "match", !.cidx = 1]
         ELSE [c EXCEPT !.pc = "match", !.cidx = 1]

\* Mutation: today's usage is read whether or not the trigger has a cap
AfterCooldownAlwaysReadsUsage(c, trigger, d) == [c EXCEPT !.pc = "cap"]

\* After the cooldown gate: the daily cap is read only when there is one
AfterCooldown(c, trigger, d) ==
    IF trigger.max_uses_per_day > 0
    THEN [c EXCEPT !.pc = "cap"]
    ELSE ProbabilityGate(c, trigger, d)

\* Mutation: the admin gate is missing
AdminGateMissing(trigger, is_admin) == FALSE

\* Mutation: the mention gate is missing
MentionGateMissing(trigger, is_mention) == FALSE

\* if trigger.admin_only and not is_admin: continue
AdminGateRejects(trigger, is_admin) == trigger.admin_only /\ ~is_admin

\* if trigger.require_mention and not is_mention: continue
MentionGateRejects(trigger, is_mention) == trigger.require_mention /\ ~is_mention

\* Mutation: the cap compared with > instead of >=
CapGateOffByOne(trigger, today_usage) == today_usage > trigger.max_uses_per_day

\* if today_usage >= trigger.max_uses_per_day: continue
CapGateRejects(trigger, today_usage) == today_usage >= trigger.max_uses_per_day

\* Mutation: the is_active gate is missing
InactiveGateMissing(trigger) == FALSE

\* if not trigger.is_active: continue
InactiveGateRejects(trigger) == ~trigger.is_active

\* is_active, admin_only, require_mention, then the cooldown lookup
Gates(s) ==
    /\ calls[s].pc = "gates"
    /\ LET c == calls[s]
           trigger == c.triggers[c.idx]
       IN \E d \in Draws :
            calls' = [calls EXCEPT ![s] =
                IF InactiveGateRejects(trigger) THEN Skip(c, "inactive")
                ELSE IF AdminGateRejects(trigger, c.is_admin) THEN Skip(c, "admin")
                ELSE IF MentionGateRejects(trigger, c.is_mention) THEN Skip(c, "mention")
                ELSE IF IsOnCooldown(trigger.id, c.chat_id, c.user_id)
                     THEN Skip(Looked(c, "cooldowns"), "cooldown")
                     ELSE AfterCooldown(Looked(c, "cooldowns"), trigger, d)]
    /\ UNCHANGED <<now, triggers_cache, cooldowns, usage, ncalls, fireTimes, fireCount,
                   ai, db, creates, bot_triggers, rendering, checking>>

\* The daily cap, with today's usage just read, then the probability gate
Cap(s) ==
    /\ calls[s].pc = "cap"
    /\ LET c == Looked(calls[s], "usage")
           trigger == c.triggers[c.idx]
           today_usage == GetTodayUsage(trigger.id, c.chat_id)
       IN \E d \in Draws :
            calls' = [calls EXCEPT ![s] =
                IF CapGateRejects(trigger, today_usage)
                THEN Skip(c, "cap")
                ELSE ProbabilityGate(c, trigger, d)]
    /\ UNCHANGED <<now, triggers_cache, cooldowns, usage, ncalls, fireTimes, fireCount,
                   ai, db, creates, bot_triggers, rendering, checking>>

\* Mutation: the cooldown of a fired trigger is never set
AfterMatchNoCooldown(trigger) == "stats"

\* Mutation: a fired trigger is not recorded at all
AfterMatchNoRecord(trigger) == "render"

\* Mutation: the cooldown is set whether or not the trigger has one
AfterMatchAlwaysCooldown(trigger) == "setcd"

\* Where a fired trigger goes first: _set_cooldown only when it has a cooldown
AfterMatch(trigger) == IF trigger.cooldown_seconds > 0 THEN "setcd" ELSE "stats"

\* One turn of the loop over the trigger's conditions: the condition at cidx
\* is checked; a match fires the trigger, otherwise the loop goes on
Match(s) ==
    /\ calls[s].pc = "match"
    /\ LET c == calls[s]
           trigger == c.triggers[c.idx]
           seen == [c EXCEPT !.evaluated = Append(c.evaluated, <<c.idx, c.cidx>>)]
           fkey == CooldownKey(trigger.id, c.chat_id, c.user_id)
           ckey == UsageKey(trigger.id, c.chat_id, Today(now))
       IN IF CheckCondition(trigger.conditions[c.cidx], c.text)
          THEN /\ calls' = [calls EXCEPT ![s] =
                      [seen EXCEPT !.pc = AfterMatch(trigger),
                                   !.fired = Append(c.fired, c.idx),
                                   !.matched = c.matched \cup {<<c.idx, c.cidx>>}]]
               /\ fireTimes' = IF trigger.cooldown_seconds > 0
                               THEN Put(fireTimes, fkey, now) ELSE fireTimes
               /\ fireCount' = Put(fireCount, ckey,
                      IF ckey \in DOMAIN fireCount THEN fireCount[ckey] + 1 ELSE 1)
          ELSE /\ calls' = [calls EXCEPT ![s] =
                      IF c.cidx < Len(trigger.conditions)
                      THEN [seen EXCEPT !.cidx = c.cidx + 1]
                      ELSE Skip(seen, "nomatch")]
               /\ UNCHANGED <<fireTimes, fireCount>>
    /\ UNCHANGED <<now, triggers_cache, cooldowns, usage, ncalls,
                   ai, db, creates, bot_triggers, rendering, checking>>

\* await self._set_cooldown(...)
SetCooldown(s) ==
    /\ calls[s].pc = "setcd"
    /\ LET c == calls[s]
           trigger == c.triggers[c.idx]
       IN /\ cooldowns' = SetCooldownEntry(trigger.id, c.chat_id, c.user_id,
                                           trigger.cooldown_seconds)
          /\ calls' = [calls EXCEPT ![s] =
                 [c EXCEPT !.pc = "stats",
                           !.writes = Append(c.writes,
                               [idx |-> c.idx, table |-> "cooldowns",
                                key |-> CooldownKey(trigger.id, c.chat_id, c.user_id),
                                value |-> now + trigger.cooldown_seconds])]]
    /\ UNCHANGED <<now, triggers_cache, usage, ncalls, fireTimes, fireCount,
                   ai, db, creates, bot_triggers, rendering, checking>>

\* await self._update_trigger_stats(...)
UpdateStats(s) ==
    /\ calls[s].pc = "stats"
    /\ LET c == calls[s]
           trigger == c.triggers[c.idx]
       IN /\ usage' = UpdateTriggerStats(trigger.id, c.chat_id, c.user_id)
          /\ calls' = [calls EXCEPT ![s] =
                 [c EXCEPT !.pc = "render",
                           !.writes = Append(c.writes,
                               [idx |-> c.idx, table |-> "usage",
                                key |-> UsageKey(trigger.id, c.chat_id, Today(now)),
                                value |-> GetTodayUsage(trigger.id, c.chat_id) + 1])]]
    /\ UNCHANGED <<now, triggers_cache, cooldowns, ncalls, fireTimes, fireCount,
                   ai, db, creates, bot_triggers, rendering, checking>>

\* The responses of the fired trigger, each rendered and appended.  The name
\* `random` is looked up before randint is ever called, so no draw is made.
Rendered(c, trigger) ==
    [i \in 1..Len(trigger.responses) |->
        ProcessResponseVariables(trigger.responses[i], c.chat_id, c.user_id, c.text,
                                 ClockAt(now), 1)]

\* The response objects of the fired trigger after the rendering
StoredResponses(c, trigger) ==
    [i \in 1..Len(trigger.responses) |->
        StoredAfterRendering(trigger.responses[i], c.chat_id, c.user_id, c.text,
                             ClockAt(now), 1)]

\* The list of triggers in which the trigger of that id holds these responses
WithResponses(list, id, responses) ==
    [k \in 1..Len(list) |->
        IF list[k].id = id THEN [list[k] EXCEPT !.responses = responses] ELSE list[k]]

\* Mutation: no `break`, the loop goes on with the next condition
AfterRenderNoBreak(c) ==
    IF c.cidx < Len(c.triggers[c.idx].conditions)
    THEN [c EXCEPT !.pc = "match", !.cidx = c.cidx + 1]
    ELSE NextTrigger(c)

\* `break`: the loop over the conditions ends, the next trigger follows
AfterRender(c) == NextTrigger(c)

\* The loop over the trigger's responses, then `break`
Render(s) ==
    /\ calls[s].pc = "render"
    /\ LET c == calls[s]
           trigger == c.triggers[c.idx]
           stored == StoredResponses(c, trigger)
       IN /\ calls' = [calls EXCEPT ![s] =
                 AfterRender([c EXCEPT
                     !.out = c.out \o Rendered(c, trigger),
                     !.out_src = c.out_src \o [i \in 1..Len(trigger.responses) |-> c.idx],
                     !.triggers = WithResponses(c.triggers, trigger.id, stored)])]
          /\ triggers_cache' = [triggers_cache EXCEPT
                 ![c.chat_id] = WithResponses(triggers_cache[c.chat_id], trigger.id, stored)]
    /\ UNCHANGED <<now, cooldowns, usage, ncalls, fireTimes, fireCount,
                   ai, db, creates, bot_triggers, rendering, checking>>

\* The caller has taken the returned list
Return(s) ==
    /\ calls[s].pc = "done"
    /\ calls' = [calls EXCEPT ![s] = IdleCall]
    /\ UNCHANGED <<now, triggers_cache, cooldowns, usage, ncalls, fireTimes, fireCount,
                   ai, db, creates, bot_triggers, rendering, checking>>

\* _cleanup_expired_cooldowns, the background task: expired entries go
CleanupExpiredCooldowns ==
    /\ \E k \in DOMAIN cooldowns : cooldowns[k] <= now
    /\ cooldowns' = [k \in { x \in DOMAIN cooldowns : cooldowns[x] > now } |-> cooldowns[k]]
    /\ UNCHANGED <<now, triggers_cache, usage, calls, ncalls, fireTimes, fireCount,
                   ai, db, creates, bot_triggers, rendering, checking>>

\* The clock
Tick ==
    /\ now < MaxTime
    /\ now' = now + 1
    /\ UNCHANGED <<triggers_cache, cooldowns, usage, calls, ncalls, fireTimes, fireCount,
                   ai, db, creates, bot_triggers, rendering, checking>>

Step(s) ==
    \/ Gates(s) \/ Cap(s) \/ Match(s) \/ SetCooldown(s)
    \/ UpdateStats(s) \/ Render(s) \/ Return(s)

Init ==
    /\ now = 0
    /\ \E registry \in Registries : triggers_cache = [chat \in Chats |-> registry]
    /\ cooldowns = <<>>
    /\ usage = <<>>
    /\ calls = [s \in Slots |-> IdleCall]
    /\ ncalls = 0
    /\ fireTimes = <<>>
    /\ fireCount = <<>>
    /\ ai = "none"
    /\ db = triggers_cache
    /\ NoCrud

\* Messages handled one after the other: an invocation starts when no other
\* is in flight.  The clock counts seconds and a dispatch takes far less, so
\* the steps of one invocation read one clock value.
SerialStart(s) == s = 1 /\ (\A o \in Slots : ~InFlight(o)) /\ Start(s)

SerialTick == (\A s \in Slots : ~InFlight(s)) /\ Tick

Next ==
    \/ \E s \in Slots : SerialStart(s)
    \/ \E s \in Slots : Step(s)
    \/ CleanupExpiredCooldowns
    \/ SerialTick

Spec == Init /\ [][Next]_vars

\* Messages handled as the event loop does: invocations interleave at their
\* suspension points.
ConcurrentRegistries ==
    { <<[PlainA EXCEPT !.cooldown_seconds = 1, !.max_uses_per_day = 1], PlainB>>,
      <<[PlainA EXCEPT !.cooldown_seconds = 2], [PlainB EXCEPT !.max_uses_per_day = 2]>> }

InitConcurrent ==
    /\ now = 0
    /\ \E registry \in ConcurrentRegistries : triggers_cache = [chat \in Chats |-> registry]
    /\ cooldowns = <<>>
    /\ usage = <<>>
    /\ calls = [s \in Slots |-> IdleCall]
    /\ ncalls = 0
    /\ fireTimes = <<>>
    /\ fireCount = <<>>
    /\ ai = "none"
    /\ db = triggers_cache
    /\ NoCrud

ConcurrentStart(s) == ncalls < MaxConcurrentCalls /\ Start(s)

NextConcurrent ==
    \/ \E s \in Slots : ConcurrentStart(s)
    \/ \E s \in Slots : Step(s)
    \/ CleanupExpiredCooldowns
    \/ SerialTick

SpecConcurrent == InitConcurrent /\ [][NextConcurrent]_vars

\* Messages of two chats, each with its own triggers, handled one after the
\* other
ScopeChats == {1, 2}

ScopeA == [PlainA EXCEPT !.cooldown_seconds = 2, !.max_uses_per_day = 2]

ScopeC ==
    [Config("tC", Condition("contains", Hi), RespC) EXCEPT
        !.chat_id = 2, !.cooldown_seconds = 2, !.max_uses_per_day = 2]

\* The triggers of each chat.  An id holds the chat's id (line 167) and is
\* the primary key of the table, so no id is in two chats.
ScopeRegistries ==
    { [chat \in ScopeChats |-> IF chat = 1 THEN <<ScopeA, PlainB>> ELSE <<ScopeC>>] }

InitScope ==
    /\ now = 0
    /\ triggers_cache \in ScopeRegistries
    /\ cooldowns = <<>>
    /\ usage = <<>>
    /\ calls = [s \in Slots |-> IdleCall]
    /\ ncalls = 0
    /\ fireTimes = <<>>
    /\ fireCount = <<>>
    /\ ai = "none"
    /\ db = triggers_cache
    /\ NoCrud

ScopeStart(s) == s = 1 /\ (\A o \in Slots : ~InFlight(o)) /\ StartIn(s, ScopeChats)

NextScope ==
    \/ \E s \in Slots : ScopeStart(s)
    \/ \E s \in Slots : Step(s)
    \/ CleanupExpiredCooldowns
    \/ SerialTick

SpecScope == InitScope /\ [][NextScope]_vars

\* Messages to triggers whose conditions call the classifier or fail
EvalFirstConfigs ==
    { [PlainA EXCEPT !.conditions = <<Condition("regex", Hi), Condition("contains", Yo)>>],
      [PlainA EXCEPT !.conditions = <<Condition("smart", <<"o", "y", " ", "H", "I">>)>>,
                     !.cooldown_seconds = 1, !.max_uses_per_day = 1],
      [PlainA EXCEPT !.conditions = <<Condition("smart", <<" ", "\t">>),
                                      Condition("smart", <<>>),
                                      Condition("smart", <<"z", "\t", "y">>)>>],
      [PlainA EXCEPT !.conditions = <<Condition("regex", Yo)>>] }

EvalSecondConfigs ==
    { PlainB,
      [PlainB EXCEPT !.conditions = <<Condition("smart", <<"h", "i", "y", "o">>),
                                      Condition("smart", <<"h", "i", " ", "y", "o">>)>>] }

EvalRegistries == { <<a, b>> : a \in EvalFirstConfigs, b \in EvalSecondConfigs }

MaxEvalCalls == 2

InitEvaluate ==
    /\ now = 0
    /\ \E registry \in EvalRegistries : triggers_cache = [chat \in Chats |-> registry]
    /\ cooldowns = <<>>
    /\ usage = <<>>
    /\ calls = [s \in Slots |-> IdleCall]
    /\ ncalls = 0
    /\ fireTimes = <<>>
    /\ fireCount = <<>>
    /\ ai \in {"none"} \cup AiReplies
    /\ db = triggers_cache
    /\ NoCrud

EvalStart(s) == ncalls < MaxEvalCalls /\ SerialStart(s)

NextEvaluate ==
    \/ \E s \in Slots : EvalStart(s)
    \/ \E s \in Slots : Step(s)
    \/ CleanupExpiredCooldowns
    \/ SerialTick

SpecEvaluate == InitEvaluate /\ [][NextEvaluate]_vars

----------------------------------------------------------------------------
(* create_trigger *)

MaxNameLen == 50
MaxPatternLen == 500
MaxResponseLen == 1000

\* re.compile(pattern) raises re.error: of the regex syntax, the pairing of
\* the parentheses is modelled
RECURSIVE ParenDepth(_, _, _)
ParenDepth(pattern, i, depth) ==
    IF depth < 0 THEN depth
    ELSE IF i > Len(pattern) THEN depth
    ELSE ParenDepth(pattern, i + 1,
            CASE pattern[i] = "(" -> depth + 1
              [] pattern[i] = ")" -> depth - 1
              [] OTHER -> depth)

ReCompiles(pattern) == ParenDepth(pattern, 1, 0) = 0

\* Mutation: the regex is not compiled at creation
ValidationWithoutRegex(name, pattern, response, trigger_type) ==
    CASE Len(name) > MaxNameLen -> "name"
      [] Len(pattern) > MaxPatternLen -> "pattern"
      [] Len(response) > MaxResponseLen -> "response"
      [] OTHER -> "none"

\* The checks at the head of create_trigger, in their order: the failure
\* reported, or "none"
Validation(name, pattern, response, trigger_type) ==
    CASE Len(name) > MaxNameLen -> "name"
      [] Len(pattern) > MaxPatternLen -> "pattern"
      [] Len(response) > MaxResponseLen -> "response"
      [] trigger_type = "regex" /\ ~ReCompiles(pattern) -> "regex"
      [] OTHER -> "none"

\* The members of the enum TriggerType, each written as its value
TriggerTypeMembers == {"exact", "contains", "starts", "ends", "regex", "smart"}

\* What a caller can pass for trigger_type besides a member: the plain string
\* of a value, as the command layer of script_1.py holds the types.  Nothing
\* in create_trigger refuses it, and it equals no member.
RawTypes == {"str contains"}

\* Mutation: the condition is written as JSON whatever its type
JsonDumpsNeverRaises(trigger_type) == FALSE

\* json.dumps([condition.__dict__]) in the arguments of the INSERT: the dict
\* holds condition.type, and a member of the enum TriggerType is not JSON
\* serializable, which raises TypeError before the statement is executed
JsonDumpsRaises(trigger_type) == trigger_type \in TriggerTypeMembers

\* trigger_type.value in the success message: a str has no attribute
\* `value`, which raises AttributeError
HasValue(trigger_type) == trigger_type \in TriggerTypeMembers

\* abs(hash(name)) % 1000000: a function of the name, modelled by a checksum
Code(ch) == CASE ch = "n" -> 1 [] ch = "1" -> 2 [] ch = "2" -> 3 [] OTHER -> 4

RECURSIVE HashName(_, _)
HashName(name, i) ==
    IF i > Len(name) THEN 0
    ELSE (Code(name[i]) * i + HashName(name, i + 1)) % 1000000

\* f"trig_{chat_id}_{creator_id}_{abs(hash(name)) % 1000000}"
TriggerId(name, chat_id, creator_id) == <<"trig", chat_id, creator_id, HashName(name, 1)>>

\* The TriggerConfig that create_trigger builds
BuildConfig(r) ==
    [id |-> TriggerId(r.name, r.chat_id, r.creator_id),
     name |-> r.name, chat_id |-> r.chat_id, creator_id |-> r.creator_id,
     conditions |-> <<[type |-> r.trigger_type, pattern |-> r.pattern,
                       case_sensitive |-> FALSE, whole_words |-> FALSE]>>,
     responses |-> <<Response(r.response)>>,
     is_active |-> TRUE,
     cooldown_seconds |-> r.options.cooldown,
     max_uses_per_day |-> r.options.max_uses,
     probability |-> r.options.probability,
     require_mention |-> r.options.require_mention,
     admin_only |-> r.options.admin_only]

\* The rows of the table ultimate_triggers, whatever the chat
AllRows == UNION { Range(db[chat]) : chat \in DOMAIN db }

\* Texts of a given length
TextOfLen(n) == [i \in 1..n |-> "x"]

N1 == <<"n", "1">>
N2 == <<"n", "2">>

\* The calls of create_trigger that are made
CreateRequest(name, creator_id, pattern, response, trigger_type, options) ==
    [name |-> name, chat_id |-> 1, creator_id |-> creator_id, pattern |-> pattern,
     response |-> response, trigger_type |-> trigger_type, options |-> options]

CreateRequests ==
    { CreateRequest(N1, 1, Hi, <<"a">>, "str contains", DefaultOptions),
      CreateRequest(N1, 2, Yo, <<"b">>, "str contains", DefaultOptions),
      CreateRequest(N2, 1, Yo, <<"b">>, "contains",
                    [DefaultOptions EXCEPT !.cooldown = 1, !.max_uses = 1]),
      CreateRequest(N2, 2, <<"(", "y", ")">>, <<"c">>, "regex", DefaultOptions),
      CreateRequest(TextOfLen(MaxNameLen), 2, Yo, TextOfLen(MaxResponseLen),
                    "str contains", DefaultOptions),
      CreateRequest(TextOfLen(MaxNameLen + 1), 1, Yo, <<"a">>, "contains", DefaultOptions),
      CreateRequest(N2, 2, TextOfLen(MaxPatternLen + 1), <<"a">>, "contains", DefaultOptions),
      CreateRequest(N2, 2, Yo, TextOfLen(MaxResponseLen + 1), "contains", DefaultOptions),
      CreateRequest(N2, 2, <<"(">>, <<"a">>, "regex", DefaultOptions),
      CreateRequest(N2, 2, <<"(">>, <<"a">>, "contains", DefaultOptions) }

MaxCrudCalls == 1

\* create_trigger up to its first suspension: the validation, the
\* TriggerConfig, the arguments of the INSERT, which raise when the condition
\* cannot be written as JSON, and the INSERT, which raises when the id is in
\* the table already (id is the primary key).  Whatever is raised is caught
\* by the except clause and reported as a failure.
CreateTriggerInsert(s) ==
    /\ creates[s].pc = "idle"
    /\ \E r \in CreateRequests :
         LET failure == Validation(r.name, r.pattern, r.response, r.trigger_type)
             config == BuildConfig(r)
             call == [IdleCreate EXCEPT
                         !.name = r.name, !.chat_id = r.chat_id,
                         !.creator_id = r.creator_id, !.pattern = r.pattern,
                         !.response = r.response, !.trigger_type = r.trigger_type,
                         !.options = r.options]
         IN IF failure # "none"
            THEN /\ creates' = [creates EXCEPT ![s] =
                        [call EXCEPT !.pc = "done", !.result = failure]]
                 /\ db' = db
            ELSE IF JsonDumpsRaises(r.trigger_type)
                    \/ \E row \in AllRows : row.id = config.id
                 THEN /\ creates' = [creates EXCEPT ![s] =
                             [call EXCEPT !.pc = "done", !.result = "error",
                                          !.trigger_id = config.id]]
                      /\ db' = db
                 ELSE /\ creates' = [creates EXCEPT ![s] =
                             [call EXCEPT !.pc = "cache", !.trigger_id = config.id,
                                          !.inserted = TRUE]]
                      /\ db' = [db EXCEPT ![r.chat_id] = Append(db[r.chat_id], config)]
    /\ UNCHANGED <<now, triggers_cache, cooldowns, usage, calls, ncalls, fireTimes,
                   fireCount, ai, bot_triggers, rendering, checking>>

\* Mutation: the cache is left as it is
RefreshedCacheKept(chat_id) == triggers_cache

\* _update_chat_cache: the chat's list is read again from the table
RefreshedCache(chat_id) == [triggers_cache EXCEPT ![chat_id] = db[chat_id]]

\* await self._update_chat_cache(chat_id), then the success message, which
\* reads trigger_type.value
UpdateChatCache(s) ==
    /\ creates[s].pc = "cache"
    /\ triggers_cache' = RefreshedCache(creates[s].chat_id)
    /\ creates' = [creates EXCEPT ![s] =
           [creates[s] EXCEPT
               !.pc = "done",
               !.result = IF HasValue(creates[s].trigger_type) THEN "ok" ELSE "error"]]
    /\ UNCHANGED <<now, cooldowns, usage, calls, ncalls, fireTimes, fireCount,
                   ai, db, bot_triggers, rendering, checking>>

\* return (success, message)
CreateReturn(s) ==
    /\ creates[s].pc = "done"
    /\ creates' = [creates EXCEPT ![s] = [creates[s] EXCEPT !.pc = "returned"]]
    /\ UNCHANGED <<now, triggers_cache, cooldowns, usage, calls, ncalls, fireTimes,
                   fireCount, ai, db, bot_triggers, rendering, checking>>

\* What the table holds when the system starts: nothing, or one trigger
LoadedRegistries ==
    { <<>>,
      <<[PlainB EXCEPT !.id = TriggerId(<<"t", "B">>, 1, 1), !.name = <<"t", "B">>,
                       !.cooldown_seconds = 1, !.max_uses_per_day = 1]>> }

InitCrud ==
    /\ now = 0
    /\ \E registry \in LoadedRegistries : triggers_cache = [chat \in Chats |-> registry]
    /\ cooldowns = <<>>
    /\ usage = <<>>
    /\ calls = [s \in Slots |-> IdleCall]
    /\ ncalls = 0
    /\ fireTimes = <<>>
    /\ fireCount = <<>>
    /\ ai = "none"
    /\ db = triggers_cache
    /\ NoCrud

CrudStart(s) == ncalls < MaxCrudCalls /\ SerialStart(s)

NextCrud ==
    \/ \E s \in Slots : CreateTriggerInsert(s)
    \/ \E s \in Slots : UpdateChatCache(s)
    \/ \E s \in Slots : CreateReturn(s)
    \/ \E s \in Slots : CrudStart(s)
    \/ \E s \in Slots : Step(s)

SpecCrud == InitCrud /\ [][NextCrud]_vars

----------------------------------------------------------------------------
(* The trigger commands of EnhancedTelegramBot *)

\* config.max_triggers_per_user (10 unless configured) and the quota of an
\* admin (100), both scaled down
MaxTriggersPerUser == 1
MaxTriggersPerAdmin == 2
MaxUsageCount == 1

BotUsers == {1, 2}

\* config.admin_ids
AdminIds == {1}

BotNames == {"n1", "n2", "n3"}

\* The pattern and the type given to /trigger_add
BotRequests ==
    { [pattern |-> Hi, type |-> "contains"],
      [pattern |-> Yo, type |-> "regex"],
      [pattern |-> <<"(">>, type |-> "regex"],
      [pattern |-> Hi, type |-> "smart"] }

\* The triggers of the dict that the user has created
UserTriggers(global, user_id) ==
    Cardinality({ k \in 1..Len(global) : global[k].created_by = user_id })

\* max_triggers = 100 if is_admin else self.config.max_triggers_per_user
MaxTriggers(user_id) ==
    IF user_id \in AdminIds THEN MaxTriggersPerAdmin ELSE MaxTriggersPerUser

\* Mutation: the limit may be passed by one
LimitPassedByOne(user_triggers, max_triggers) == user_triggers > max_triggers

\* if user_triggers >= max_triggers: the limit is reached
LimitReached(user_triggers, max_triggers) == user_triggers >= max_triggers

\* The position of the name among the keys of the dict, or 0
KeyIndex(global, name) ==
    IF \E k \in 1..Len(global) : global[k].name = name
    THEN CHOOSE k \in 1..Len(global) : global[k].name = name
    ELSE 0

\* self.triggers['global'][name] = value: a key of the dict keeps its place
SetItem(global, name, value) ==
    IF KeyIndex(global, name) = 0
    THEN Append(global, value)
    ELSE [global EXCEPT ![KeyIndex(global, name)] = value]

\* del self.triggers['global'][name]
DelItem(global, name) ==
    LET k == KeyIndex(global, name)
    IN SubSeq(global, 1, k - 1) \o SubSeq(global, k + 1, Len(global))

\* What a command leaves behind
BotAfter(global, reply, op, user_id) ==
    [global |-> global, reply |-> reply, op |-> op, user_id |-> user_id,
     owned |-> UserTriggers(bot_triggers.global, user_id),
     changed |-> global # bot_triggers.global]

\* _handle_trigger_add
HandleTriggerAdd ==
    /\ \E user_id \in BotUsers, name \in BotNames, request \in BotRequests :
         LET global == bot_triggers.global
             user_triggers == UserTriggers(global, user_id)
         IN bot_triggers' =
              IF LimitReached(user_triggers, MaxTriggers(user_id))
              THEN BotAfter(global, "limit", "add", user_id)
              ELSE IF request.type \notin {"contains", "exact", "starts_with",
                                           "ends_with", "regex"}
              THEN BotAfter(global, "type", "add", user_id)
              ELSE IF request.type = "regex" /\ ~ReCompiles(request.pattern)
              THEN BotAfter(global, "regex", "add", user_id)
              ELSE BotAfter(SetItem(global, name,
                                [name |-> name, pattern |-> request.pattern,
                                 response |-> <<"r">>, type |-> request.type,
                                 created_by |-> user_id, usage_count |-> 0]),
                            "created", "add", user_id)
    /\ UNCHANGED <<now, triggers_cache, cooldowns, usage, calls, ncalls, fireTimes,
                   fireCount, ai, db, creates, rendering, checking>>

\* _handle_trigger_delete
HandleTriggerDelete ==
    /\ \E user_id \in BotUsers, name \in BotNames :
         LET global == bot_triggers.global
             k == KeyIndex(global, name)
         IN bot_triggers' =
              IF k = 0
              THEN BotAfter(global, "notfound", "del", user_id)
              ELSE IF global[k].created_by # user_id /\ user_id \notin AdminIds
              THEN BotAfter(global, "forbidden", "del", user_id)
              ELSE BotAfter(DelItem(global, name), "deleted", "del", user_id)
    /\ UNCHANGED <<now, triggers_cache, cooldowns, usage, calls, ncalls, fireTimes,
                   fireCount, ai, db, creates, rendering, checking>>

\* re.search(pattern, text, re.IGNORECASE) for a pattern that compiles: of
\* the regex syntax, literal characters are modelled
ReSearch(pattern, text) == Contains(LowerSeq(text), LowerSeq(pattern))

\* The type tests of _check_triggers
BotMatch(trigger, text) ==
    CASE trigger.type = "contains" -> Contains(LowerSeq(text), LowerSeq(trigger.pattern))
      [] trigger.type = "exact" -> LowerSeq(trigger.pattern) = LowerSeq(text)
      [] trigger.type = "starts_with" -> StartsWith(LowerSeq(text), LowerSeq(trigger.pattern))
      [] trigger.type = "ends_with" -> EndsWith(LowerSeq(text), LowerSeq(trigger.pattern))
      [] trigger.type = "regex" -> ReCompiles(trigger.pattern) /\ ReSearch(trigger.pattern, text)
      [] OTHER -> FALSE

\* _check_triggers: the first trigger of the dict that matches is counted
\* and its response returned
CheckTriggers ==
    /\ \E text \in Texts :
         LET global == bot_triggers.global
             hits == { k \in 1..Len(global) : BotMatch(global[k], text) }
         IN /\ hits # {}
            /\ LET first == CHOOSE k \in hits : \A j \in hits : k <= j
               IN /\ global[first].usage_count < MaxUsageCount
                  /\ bot_triggers' =
                        BotAfter([global EXCEPT ![first].usage_count = @ + 1],
                                 "response", "message", 0)
    /\ UNCHANGED <<now, triggers_cache, cooldowns, usage, calls, ncalls, fireTimes,
                   fireCount, ai, db, creates, rendering, checking>>

InitBot ==
    /\ NoDispatch
    /\ db = triggers_cache
    /\ NoCrud

NextBot ==
    \/ HandleTriggerAdd
    \/ HandleTriggerDelete
    \/ CheckTriggers

SpecBot == InitBot /\ [][NextBot]_vars

----------------------------------------------------------------------------
(* Vocabulary of the properties *)

\* The number of entries of the write log of c made for the trigger at i
WritesOf(c, i, table) ==
    Cardinality({ k \in 1..Len(c.writes) : c.writes[k].idx = i /\ c.writes[k].table = table })

\* The number of responses of the list q that came from the trigger at i
CountOf(q, i) == Cardinality({ k \in 1..Len(q) : q[k] = i })

\* Trigger i left no trace in the invocation: not fired, nothing recorded,
\* no response in the list being built nor in the list returned
Silent(c, i) ==
    /\ i \notin Range(c.fired)
    /\ \A k \in 1..Len(c.writes) : c.writes[k].idx # i
    /\ i \notin Range(c.out_src)
    /\ i \notin Range(c.result_src)

\* The for loop has run its body for trigger i to the end
Evaluated(c, i) ==
    \/ c.idx > i
    \/ c.idx = i /\ c.pc = "done" /\ ~c.aborted

\* Some condition of the trigger matches the text
Matches(trigger, text) ==
    \E k \in 1..Len(trigger.conditions) : CheckCondition(trigger.conditions[k], text)

\* The value a table had for a key when the invocation started
Before(table, key, default) == IF key \in DOMAIN table THEN table[key] ELSE default

\* The gates of the trigger other than the cooldown are open for the message
\* of c: active, admin and mention satisfied, cap not reached when the
\* invocation started, and no probability draw to pass
OpenButCooldown(c, trigger) ==
    /\ trigger.is_active
    /\ trigger.admin_only => c.is_admin
    /\ trigger.require_mention => c.is_mention
    /\ trigger.max_uses_per_day > 0 =>
          Before(c.pre_usage, UsageKey(trigger.id, c.chat_id, Today(c.at)), 0)
              < trigger.max_uses_per_day
    /\ trigger.probability = 100

\* The same with the cooldown gate open too when the invocation started
OpenAtStart(c, trigger) ==
    /\ OpenButCooldown(c, trigger)
    /\ LET key == CooldownKey(trigger.id, c.chat_id, c.user_id)
       IN key \in DOMAIN c.pre_cooldowns => c.at >= c.pre_cooldowns[key]

----------------------------------------------------------------------------
(* C1: cooldown enforcement *)

\* The invocation c comes less than cooldown_seconds after the latest fire
\* of the trigger at i for the same chat and user
WithinCooldown(c, i) ==
    LET trigger == c.triggers[i]
        key == CooldownKey(trigger.id, c.chat_id, c.user_id)
    IN /\ trigger.cooldown_seconds > 0
       /\ key \in DOMAIN c.pre_fire
       /\ c.at < c.pre_fire[key] + trigger.cooldown_seconds

\* ... or more than cooldown_seconds after it
PastCooldown(c, i) ==
    LET trigger == c.triggers[i]
        key == CooldownKey(trigger.id, c.chat_id, c.user_id)
    IN /\ trigger.cooldown_seconds > 0
       /\ key \in DOMAIN c.pre_fire
       /\ c.at > c.pre_fire[key] + trigger.cooldown_seconds

\* C1: once a trigger with cooldown_seconds = C > 0 has fired for (trigger,
\* chat, user) at time t, an invocation for the same chat and user at a time
\* before t + C yields no response from the trigger and records nothing for
\* it; in an invocation at a time after t + C whose message matches, the
\* other gates being open, the trigger is not skipped at the cooldown gate
\* and fires once the loop has evaluated it.
C1_CooldownEnforced ==
    \A s \in Slots :
        LET c == calls[s]
        IN \A i \in 1..Len(c.triggers) :
            /\ WithinCooldown(c, i) => Silent(c, i)
            /\ PastCooldown(c, i) =>
                  /\ <<i, "cooldown">> \notin c.skipped
                  /\ ( /\ Evaluated(c, i)
                       /\ OpenButCooldown(c, c.triggers[i])
                       /\ Matches(c.triggers[i], c.text) ) => i \in Range(c.fired)

\* A matching message that meets the cooldown: the call has returned, the
\* trigger stayed silent and was skipped at the cooldown gate.
C1_Witness ==
    \E s \in Slots :
        LET c == calls[s]
        IN /\ c.pc = "done"
           /\ \E i \in 1..Len(c.triggers) :
                /\ WithinCooldown(c, i)
                /\ OpenButCooldown(c, c.triggers[i])
                /\ Matches(c.triggers[i], c.text)
                /\ <<i, "cooldown">> \in c.skipped

\* The trigger fires again after the cooldown has passed.
C1_WitnessFiresAgain ==
    \E s \in Slots :
        LET c == calls[s]
        IN /\ c.pc = "done"
           /\ \E i \in 1..Len(c.triggers) : PastCooldown(c, i) /\ i \in Range(c.fired)

----------------------------------------------------------------------------
(* C2: daily cap *)

\* The triggers of the registry that count for the key of fireCount
TriggersOfKey(key) ==
    { t \in Range(GetChatTriggers(key[2])) : t.id = key[1] }

\* The cap of the trigger at i was reached on an earlier date and the
\* trigger has not fired yet on the date of the invocation c
CapReachedEarlier(c, i) ==
    LET trigger == c.triggers[i]
    IN /\ trigger.max_uses_per_day > 0
       /\ UsageKey(trigger.id, c.chat_id, Today(c.at)) \notin DOMAIN c.pre_count
       /\ \E d \in 0..(Today(c.at) - 1) :
            Before(c.pre_count, UsageKey(trigger.id, c.chat_id, d), 0)
                >= trigger.max_uses_per_day

OpenButCap(c, trigger) ==
    /\ trigger.is_active
    /\ trigger.admin_only => c.is_admin
    /\ trigger.require_mention => c.is_mention
    /\ LET key == CooldownKey(trigger.id, c.chat_id, c.user_id)
       IN key \in DOMAIN c.pre_cooldowns => c.at >= c.pre_cooldowns[key]
    /\ trigger.probability = 100

\* C2: with invocations run one after the other, a trigger with
\* max_uses_per_day = N > 0 fires at most N times in a chat on one date,
\* whoever sends the messages; on a later date the cap gate admits it again,
\* and it fires when the message matches and the other gates are open.
C2_DailyCap ==
    /\ \A key \in DOMAIN fireCount :
         \A t \in TriggersOfKey(key) :
            t.max_uses_per_day > 0 => fireCount[key] <= t.max_uses_per_day
    /\ \A s \in Slots :
         LET c == calls[s]
         IN \A i \in 1..Len(c.triggers) :
              CapReachedEarlier(c, i) =>
                 /\ <<i, "cap">> \notin c.skipped
                 /\ ( /\ Evaluated(c, i)
                      /\ OpenButCap(c, c.triggers[i])
                      /\ Matches(c.triggers[i], c.text) ) => i \in Range(c.fired)

\* The cap was reached on one date by messages of two users, and on the next
\* date the trigger has fired again.
C2_Witness ==
    \E s \in Slots :
        LET c == calls[s]
        IN \E i \in 1..Len(c.triggers) :
             /\ CapReachedEarlier(c, i)
             /\ c.triggers[i].max_uses_per_day > 1
             /\ i \in Range(c.fired)
             /\ \E u \in Users : u # c.user_id /\
                  CooldownKey(c.triggers[i].id, c.chat_id, u) \in DOMAIN fireTimes

----------------------------------------------------------------------------
(* C3: per-chat serialization *)

\* Two invocations for one chat and user have both fired the trigger at i
\* although the times they came at are less than its cooldown apart
CooldownBypassed(c1, c2, i) ==
    /\ i <= Len(c1.triggers) /\ i <= Len(c2.triggers)
    /\ c1.triggers[i] = c2.triggers[i]
    /\ c1.triggers[i].cooldown_seconds > 0
    /\ c1.chat_id = c2.chat_id /\ c1.user_id = c2.user_id
    /\ i \in Range(c1.fired) /\ i \in Range(c2.fired)
    /\ c1.at - c2.at < c1.triggers[i].cooldown_seconds
    /\ c2.at - c1.at < c1.triggers[i].cooldown_seconds

\* C3: invocations for one chat do not interleave their admit, evaluate and
\* record steps, so the gate checks of the later one see what the earlier one
\* recorded: the daily cap is never exceeded and a cooldown never bypassed.
C3_GatesSeeEarlierRecords ==
    /\ \A key \in DOMAIN fireCount :
         \A t \in TriggersOfKey(key) :
            t.max_uses_per_day > 0 => fireCount[key] <= t.max_uses_per_day
    /\ \A s1 \in Slots, s2 \in Slots :
         s1 # s2 => \A i \in 1..Len(calls[s1].triggers) :
                       ~CooldownBypassed(calls[s1], calls[s2], i)

----------------------------------------------------------------------------
(* C4, C5: what the dispatch returns *)

WellFormed(trigger) == trigger.probability # NotNumeric

\* The trigger at i passes all its gates and has a matching condition.  The
\* gates are judged on the state the invocation started from; for a trigger
\* with a probability below 1.0 the draw decides, and the history tells it.
ShouldFire(c, i) ==
    LET trigger == c.triggers[i]
    IN IF trigger.probability = 100
       THEN OpenAtStart(c, trigger) /\ Matches(trigger, c.text)
       ELSE i \in Range(c.fired)

\* The responses of the triggers from i on that should fire, in registry
\* order and in the order of each trigger's list
RECURSIVE ExpectedFrom(_, _)
ExpectedFrom(c, i) ==
    IF i > Len(c.triggers) THEN <<>>
    ELSE (IF ShouldFire(c, i) THEN Rendered(c, c.triggers[i]) ELSE <<>>)
         \o ExpectedFrom(c, i + 1)

\* C4: when the evaluation of one trigger raises an error, the responses of
\* every other admissible matching trigger are still returned, those before
\* it and those after it in registry order.
C4_PartialFailureIsolated ==
    \A s \in Slots :
        LET c == calls[s]
        IN c.pc = "done" =>
             \A i \in 1..Len(c.triggers) :
                ( /\ WellFormed(c.triggers[i])
                  /\ OpenAtStart(c, c.triggers[i])
                  /\ Matches(c.triggers[i], c.text) )
                => CountOf(c.result_src, i) = Len(c.triggers[i].responses)

\* C5: process_message returns the responses of every trigger that passes
\* all gates and has a matching condition, all of them, in registry order of
\* the triggers and in list order of each trigger's responses.
C5_AllResponsesReturned ==
    \A s \in Slots :
        LET c == calls[s]
        IN c.pc = "done" => c.result = ExpectedFrom(c, 1)

\* What holds of the code instead: a call that reaches its return statement
\* without an exception returns that list.
C5_NormalReturn ==
    \A s \in Slots :
        LET c == calls[s]
        IN (c.pc = "done" /\ ~c.aborted) =>
              /\ c.result = ExpectedFrom(c, 1)
              /\ \A i \in 1..Len(c.triggers) :
                    ( /\ WellFormed(c.triggers[i])
                      /\ OpenAtStart(c, c.triggers[i])
                      /\ Matches(c.triggers[i], c.text) )
                    => CountOf(c.result_src, i) = Len(c.triggers[i].responses)

----------------------------------------------------------------------------
(* C6: first match wins *)

\* The conditions of the trigger at i that match the text of c
Matching(c, i) ==
    { k \in 1..Len(c.triggers[i].conditions) :
        CheckCondition(c.triggers[i].conditions[k], c.text) }

\* The conditions of the trigger at i that c has checked
Checked(c, i) == { k \in 1..Len(c.triggers[i].conditions) : <<i, k>> \in Range(c.evaluated) }

\* The recording for the trigger at i is over in c
Recorded(c, i) == Evaluated(c, i) \/ (c.idx = i /\ c.pc = "render")

\* C6: within one message a trigger fires at most once, however many of its
\* conditions match: once it has fired, its usage is recorded once, its
\* cooldown set once (when it has one), each of its responses is appended
\* once, and no condition after the first matching one is checked.
C6_FirstMatchWins ==
    \A s \in Slots :
        LET c == calls[s]
        IN \A i \in 1..Len(c.triggers) :
            /\ CountOf(c.fired, i) <= 1
            /\ \A k \in Checked(c, i) : \A m \in Matching(c, i) : k <= m
            /\ CountOf(c.evaluated, <<i, 1>>) <= 1
            /\ (i \in Range(c.fired) /\ Recorded(c, i)) =>
                  /\ WritesOf(c, i, "usage") = 1
                  /\ WritesOf(c, i, "cooldowns") =
                        (IF c.triggers[i].cooldown_seconds > 0 THEN 1 ELSE 0)
            /\ (i \in Range(c.fired) /\ Evaluated(c, i)) =>
                  CountOf(c.out_src, i) = Len(c.triggers[i].responses)
            /\ CountOf(c.result_src, i) <= Len(c.triggers[i].responses)

\* A trigger with two matching conditions and two responses has fired and
\* the call has returned.
C6_Witness ==
    \E s \in Slots :
        LET c == calls[s]
        IN /\ c.pc = "done"
           /\ \E i \in 1..Len(c.triggers) :
                /\ Cardinality(Matching(c, i)) >= 2
                /\ Len(c.triggers[i].responses) >= 2
                /\ i \in Range(c.fired)
                /\ CountOf(c.result_src, i) = 2

----------------------------------------------------------------------------
(* C7: a rejected trigger changes nothing *)

\* The trigger at i was turned away by a gate, or none of its conditions
\* matched
Rejected(c, i) ==
    LET trigger == c.triggers[i]
    IN \/ \E gate \in {"inactive", "admin", "mention", "cooldown", "cap",
                       "probability", "nomatch"} : <<i, gate>> \in c.skipped
       \/ ~trigger.is_active
       \/ trigger.admin_only /\ ~c.is_admin
       \/ trigger.require_mention /\ ~c.is_mention
       \/ IsOnCooldown(trigger.id, c.chat_id, c.user_id) /\ i \notin Range(c.fired)
       \/ ~Matches(trigger, c.text)

\* The cooldown entry and the usage count of the trigger at i are what they
\* were when the invocation started (an expired entry may have been evicted)
TablesUnchanged(c, i) ==
    LET trigger == c.triggers[i]
        ckey == CooldownKey(trigger.id, c.chat_id, c.user_id)
        ukey == UsageKey(trigger.id, c.chat_id, Today(c.at))
    IN /\ ckey \in DOMAIN cooldowns =>
            ckey \in DOMAIN c.pre_cooldowns /\ cooldowns[ckey] = c.pre_cooldowns[ckey]
       /\ Before(usage, ukey, 0) = Before(c.pre_usage, ukey, 0)

\* C7: a trigger rejected by a gate, or whose conditions all fail, gets no
\* cooldown entry and no usage count from that message; this holds for a
\* fire skipped by the probability draw too.
C7_RejectedChangesNothing ==
    \A s \in Slots :
        LET c == calls[s]
        IN c.pc # "idle" =>
             \A i \in 1..Len(c.triggers) :
                Rejected(c, i) => Silent(c, i) /\ TablesUnchanged(c, i)

\* A matching message to a trigger with a cooldown and a cap, all other gates
\* open, was skipped by the probability draw, and the call has returned.
C7_Witness ==
    \E s \in Slots :
        LET c == calls[s]
        IN /\ c.pc = "done"
           /\ \E i \in 1..Len(c.triggers) :
                /\ <<i, "probability">> \in c.skipped
                /\ c.triggers[i].cooldown_seconds > 0
                /\ c.triggers[i].max_uses_per_day > 0
                /\ Matches(c.triggers[i], c.text)

----------------------------------------------------------------------------
(* C8: record on match *)

\* C8: when a trigger fires, today's usage count of (trigger, chat) goes up
\* by exactly 1 and, when cooldown_seconds > 0, the cooldown entry of
\* (trigger, chat, user) is set to now + cooldown_seconds; nothing is
\* recorded for a trigger that has not matched, and the recording is over
\* before the first response of the trigger is appended.
C8_RecordOnMatch ==
    \A s \in Slots :
        LET c == calls[s]
        IN c.pc # "idle" =>
             \A i \in 1..Len(c.triggers) :
                LET trigger == c.triggers[i]
                    ckey == CooldownKey(trigger.id, c.chat_id, c.user_id)
                    ukey == UsageKey(trigger.id, c.chat_id, Today(c.at))
                IN /\ (i \in Range(c.fired) /\ Recorded(c, i)) =>
                        /\ Before(usage, ukey, 0) = Before(c.pre_usage, ukey, 0) + 1
                        /\ trigger.cooldown_seconds > 0 =>
                              /\ ckey \in DOMAIN cooldowns
                              /\ cooldowns[ckey] = c.at + trigger.cooldown_seconds
                        /\ trigger.cooldown_seconds = 0 => WritesOf(c, i, "cooldowns") = 0
                   /\ i \notin Range(c.fired) =>
                        \A k \in 1..Len(c.writes) : c.writes[k].idx # i
                   /\ i \in Range(c.fired) => Matches(trigger, c.text)
                   /\ i \in Range(c.out_src) => i \in Range(c.fired) /\ Recorded(c, i)

\* A trigger with a cooldown has fired and is recorded, and its responses
\* are not appended yet.
C8_Witness ==
    \E s \in Slots :
        LET c == calls[s]
        IN /\ c.pc = "render"
           /\ c.triggers[c.idx].cooldown_seconds > 0
           /\ WritesOf(c, c.idx, "usage") = 1
           /\ WritesOf(c, c.idx, "cooldowns") = 1
           /\ c.idx \notin Range(c.out_src)

----------------------------------------------------------------------------
(* C9: admin-only gate *)

OpenButAdmin(c, trigger) ==
    /\ trigger.is_active
    /\ trigger.require_mention => c.is_mention
    /\ LET key == CooldownKey(trigger.id, c.chat_id, c.user_id)
       IN key \in DOMAIN c.pre_cooldowns => c.at >= c.pre_cooldowns[key]
    /\ trigger.max_uses_per_day > 0 =>
          Before(c.pre_usage, UsageKey(trigger.id, c.chat_id, Today(c.at)), 0)
              < trigger.max_uses_per_day
    /\ trigger.probability = 100

\* C9: a trigger with admin_only set yields no response and records nothing
\* for a message of a sender who is no admin, whatever the text; for an
\* admin's message the gate does not turn it away, and it fires when the
\* message matches and the other gates are open.
C9_AdminOnly ==
    \A s \in Slots :
        LET c == calls[s]
        IN \A i \in 1..Len(c.triggers) :
            c.triggers[i].admin_only =>
               /\ ~c.is_admin => Silent(c, i)
               /\ c.is_admin =>
                    /\ <<i, "admin">> \notin c.skipped
                    /\ ( /\ Evaluated(c, i)
                         /\ OpenButAdmin(c, c.triggers[i])
                         /\ Matches(c.triggers[i], c.text) ) => i \in Range(c.fired)

\* A matching message of a sender who is no admin, the other gates open: the
\* call has returned and the admin-only trigger was turned away.
C9_Witness ==
    \E s \in Slots :
        LET c == calls[s]
        IN /\ c.pc = "done"
           /\ ~c.is_admin
           /\ \E i \in 1..Len(c.triggers) :
                /\ c.triggers[i].admin_only
                /\ OpenButAdmin(c, c.triggers[i])
                /\ Matches(c.triggers[i], c.text)
                /\ <<i, "admin">> \in c.skipped

\* The same message of an admin fires the trigger.
C9_WitnessAdminFires ==
    \E s \in Slots :
        LET c == calls[s]
        IN /\ c.pc = "done" /\ c.is_admin
           /\ \E i \in 1..Len(c.triggers) :
                c.triggers[i].admin_only /\ CountOf(c.result_src, i) = 1

----------------------------------------------------------------------------
(* C10: mention gate *)

\* C10: a trigger with require_mention set never fires for a message that
\* does not mention the bot, and the mention gate does not turn it away for
\* a message that does.
C10_MentionGate ==
    \A s \in Slots :
        LET c == calls[s]
        IN \A i \in 1..Len(c.triggers) :
            c.triggers[i].require_mention =>
               /\ ~c.is_mention => Silent(c, i)
               /\ c.is_mention => <<i, "mention">> \notin c.skipped

\* A matching message without a mention was turned away at the mention gate,
\* the call has returned.
C10_Witness ==
    \E s \in Slots :
        LET c == calls[s]
        IN /\ c.pc = "done"
           /\ ~c.is_mention
           /\ \E i \in 1..Len(c.triggers) :
                /\ c.triggers[i].require_mention
                /\ Matches(c.triggers[i], c.text)
                /\ <<i, "mention">> \in c.skipped

\* A message with a mention fires the trigger.
C10_WitnessMentionFires ==
    \E s \in Slots :
        LET c == calls[s]
        IN /\ c.pc = "done" /\ c.is_mention
           /\ \E i \in 1..Len(c.triggers) :
                c.triggers[i].require_mention /\ CountOf(c.result_src, i) = 1

----------------------------------------------------------------------------
(* C11: inactive triggers *)

\* C11: a trigger with is_active = false is never evaluated: no invocation
\* checks any of its conditions, fires it, records a cooldown or a use for
\* it, or holds a response of it in the list being built or returned.
C11_InactiveNeverEvaluated ==
    \A s \in Slots :
        LET c == calls[s]
        IN \A i \in 1..Len(c.triggers) :
            ~c.triggers[i].is_active =>
               /\ Silent(c, i)
               /\ Checked(c, i) = {}
               /\ \A gate \in {"admin", "mention", "cooldown", "cap", "probability",
                                "nomatch"} : <<i, gate>> \notin c.skipped

\* A message that matches the condition of an inactive trigger, sent by an
\* admin with a mention: the trigger was passed over and the call returned.
C11_Witness ==
    \E s \in Slots :
        LET c == calls[s]
        IN /\ c.pc = "done"
           /\ c.is_admin /\ c.is_mention
           /\ \E i \in 1..Len(c.triggers) :
                /\ ~c.triggers[i].is_active
                /\ Matches(c.triggers[i], c.text)
                /\ <<i, "inactive">> \in c.skipped

----------------------------------------------------------------------------
(* _process_response_variables on its own *)

Hello == <<"H", "e", "l", "l", "o", " ", "{user_id}", " ", "a", "t", " ", "{time}">>

RenderTemplates ==
    { Hello,
      <<"{trigger_text}">>,
      <<"{chat_id}", "{date}", "{random}", "{name}">>,
      <<"{user_id}", "-", "{user_id}">>,
      <<"o", "k">> }

RenderResponses ==
    { Response(t) : t \in RenderTemplates } \cup
    { [text |-> t, reactions |-> <<"+">>, delete_trigger |-> TRUE, forward_to |-> 7] :
        t \in RenderTemplates }

RenderUsers == {42, 7}
RenderChats == {1, -100}
RenderTexts == {Hi, <<"{time}">>, <<"{random}", " ", "{user_id}">>}
RenderClocks ==
    { [hour |-> 9, minute |-> 5, day |-> 4, month |-> 11, year |-> 2026],
      [hour |-> 23, minute |-> 59, day |-> 31, month |-> 12, year |-> 1999] }

InitRender ==
    /\ NoDispatch
    /\ db = triggers_cache
    /\ creates = [s \in Slots |-> IdleCreate]
    /\ bot_triggers = IdleBot
    /\ checking = IdleChecking
    /\ \E response \in RenderResponses, chat_id \in RenderChats, user_id \in RenderUsers,
          trigger_text \in RenderTexts, clock \in RenderClocks, rnd \in RandomInts :
         rendering = [pc |-> "ready", response |-> response, chat_id |-> chat_id,
                      user_id |-> user_id, trigger_text |-> trigger_text,
                      clock |-> clock, rnd |-> rnd, result |-> response]

\* The call of _process_response_variables
ProcessResponseVariablesCall ==
    /\ rendering.pc = "ready"
    /\ rendering' = [rendering EXCEPT
           !.pc = "done",
           !.result = ProcessResponseVariables(rendering.response, rendering.chat_id,
                          rendering.user_id, rendering.trigger_text,
                          rendering.clock, rendering.rnd)]
    /\ UNCHANGED <<now, triggers_cache, cooldowns, usage, calls, ncalls, fireTimes,
                   fireCount, ai, db, creates, bot_triggers, checking>>

NextRender == ProcessResponseVariablesCall

SpecRender == InitRender /\ [][NextRender]_vars

----------------------------------------------------------------------------
(* C16: template rendering *)

\* What the placeholder stands for in the call r
ValueOf(r, placeholder) ==
    CASE placeholder = "{user_id}" -> Str(r.user_id)
      [] placeholder = "{chat_id}" -> Str(r.chat_id)
      [] placeholder = "{trigger_text}" -> r.trigger_text
      [] placeholder = "{time}" -> FormatTime(r.clock)
      [] placeholder = "{date}" -> FormatDate(r.clock)
      [] placeholder = "{random}" -> Str(r.rnd)

\* The template with each supported placeholder replaced by its value, in
\* one pass from left to right
RECURSIVE SinglePass(_, _)
SinglePass(r, text) ==
    IF text = <<>> THEN <<>>
    ELSE (IF Head(text) \in SupportedPlaceholders
          THEN ValueOf(r, Head(text)) ELSE <<Head(text)>>)
         \o SinglePass(r, Tail(text))

\* The text holds no supported placeholder
NoPlaceholderIn(text) == \A k \in 1..Len(text) : text[k] \notin SupportedPlaceholders

\* C16: the response returned has the template's text with every occurrence
\* of {user_id}, {chat_id}, {trigger_text}, {time}, {date} and {random}
\* replaced by the sender id, the chat id, the triggering text, the time as
\* HH:MM, the date as DD.MM.YYYY and an integer of [1,100], unknown
\* placeholders left as they are, and the reactions, the delete flag and the
\* forward target of the response given; "Hello {user_id} at {time}" for
\* user 42 yields a text that holds "42" and no supported placeholder.
C16_TemplateRendered ==
    rendering.pc = "done" =>
        /\ rendering.rnd \in 1..100
        /\ NoPlaceholderIn(rendering.trigger_text) =>
              rendering.result.text = SinglePass(rendering, rendering.response.text)
        /\ rendering.result.reactions = rendering.response.reactions
        /\ rendering.result.delete_trigger = rendering.response.delete_trigger
        /\ rendering.result.forward_to = rendering.response.forward_to
        /\ (rendering.response.text = Hello /\ rendering.user_id = 42) =>
              /\ Contains(rendering.result.text, <<"4", "2">>)
              /\ NoPlaceholderIn(rendering.result.text)

----------------------------------------------------------------------------
(* C17: single-pass substitution *)

\* C17: what is put in for a placeholder is not expanded again: when the
\* template holds {trigger_text} and the triggering message holds
\* placeholder syntax, the rendered text holds the message as it was sent.
C17_SinglePass ==
    ( /\ rendering.pc = "done"
      /\ "{trigger_text}" \in Range(rendering.response.text)
      /\ ~NoPlaceholderIn(rendering.trigger_text) )
    => Contains(rendering.result.text, rendering.trigger_text)

----------------------------------------------------------------------------
(* C19: fail-safe evaluation *)

\* The check of condition k of trigger i raised in the invocation c
Raised(c, i, k) ==
    /\ <<i, k>> \in Range(c.evaluated)
    /\ CheckConditionBody(c.triggers[i].conditions[k], c.text) = "error"

\* C19: a condition whose evaluation fails (the regex search, or the
\* classifier raising or timing out) counts as no match and ends nothing:
\* the invocation is not aborted, the trigger does not fire by it, the next
\* condition of the trigger is checked, and after the last condition the
\* loop goes on to the remaining triggers.
C19_FailSafe ==
    \A s \in Slots :
        LET c == calls[s]
        IN \A i \in 1..Len(c.triggers) :
            \A k \in 1..Len(c.triggers[i].conditions) :
                Raised(c, i, k) =>
                   /\ <<i, k>> \notin c.matched
                   /\ ~c.aborted
                   /\ k < Len(c.triggers[i].conditions) =>
                         \/ <<i, k + 1>> \in Range(c.evaluated)
                         \/ c.idx = i /\ c.pc = "match" /\ c.cidx = k + 1
                   /\ k = Len(c.triggers[i].conditions) =>
                         /\ <<i, "nomatch">> \in c.skipped
                         /\ Evaluated(c, i)
                   /\ c.pc = "done" => \A j \in (i + 1)..Len(c.triggers) : Evaluated(c, j)

\* The first condition of a trigger raised, its second one matched and fired
\* the trigger, and the trigger after it has fired too.
C19_Witness ==
    \E s \in Slots :
        LET c == calls[s]
        IN /\ c.pc = "done"
           /\ Raised(c, 1, 1)
           /\ <<1, 2>> \in c.matched
           /\ 2 \in Range(c.fired)

\* The classifier raised on the last condition of a trigger and the next
\* trigger was evaluated.
C19_WitnessClassifier ==
    \E s \in Slots :
        LET c == calls[s]
        IN /\ c.pc = "done" /\ ai = "raises"
           /\ \E k \in 1..Len(c.triggers[1].conditions) :
                /\ c.triggers[1].conditions[k].type = "smart" /\ Raised(c, 1, k)
           /\ <<2, 1>> \in Range(c.evaluated)

----------------------------------------------------------------------------
(* C20: the smart condition without a classifier *)

\* The words of the pattern: its longest stretches free of white space
Keywords(pattern) ==
    { SubSeq(pattern, a, b) : <<a, b>> \in
        { p \in (1..Len(pattern)) \X (1..Len(pattern)) :
            /\ p[1] <= p[2]
            /\ \A j \in p[1]..p[2] : ~IsSpace(pattern[j])
            /\ (p[1] = 1 \/ IsSpace(pattern[p[1] - 1]))
            /\ (p[2] = Len(pattern) \/ IsSpace(pattern[p[2] + 1])) } }

\* Some keyword of the pattern occurs in the text, letter case aside
KeywordOccurs(pattern, text) ==
    \E keyword \in Keywords(pattern) : Contains(LowerSeq(text), LowerSeq(keyword))

\* C20: with no classifier configured a smart condition matches exactly when
\* some keyword of its pattern (the pattern split at white space) occurs in
\* the message as a substring, letter case aside, so that an empty or blank
\* pattern never matches; with a classifier configured the classifier's
\* answer decides and the keywords are not looked at.
C20_SmartFallback ==
    \A s \in Slots :
        LET c == calls[s]
        IN \A i \in 1..Len(c.triggers) :
            \A k \in 1..Len(c.triggers[i].conditions) :
                LET condition == c.triggers[i].conditions[k]
                IN (condition.type = "smart" /\ <<i, k>> \in Range(c.evaluated)) =>
                      /\ ai = "none" =>
                            (<<i, k>> \in c.matched <=> KeywordOccurs(condition.pattern, c.text))
                      /\ ai = "none" =>
                            ((\A j \in 1..Len(condition.pattern) : IsSpace(condition.pattern[j]))
                                => <<i, k>> \notin c.matched)
                      /\ ai # "none" => (<<i, k>> \in c.matched <=> ai = "da")

\* Without a classifier: a blank and an empty pattern did not match, and a
\* pattern matched by one of its keywords though it does not occur in the
\* message as a whole.
C20_Witness ==
    \E s \in Slots :
        LET c == calls[s]
        IN /\ ai = "none"
           /\ <<1, 1>> \in Range(c.evaluated) /\ <<1, 2>> \in Range(c.evaluated)
           /\ c.triggers[1].conditions[1] = Condition("smart", <<" ", "\t">>)
           /\ \E k \in 1..Len(c.triggers[2].conditions) :
                /\ c.triggers[2].conditions[k].type = "smart"
                /\ <<2, k>> \in c.matched
                /\ ~Contains(LowerSeq(c.text), LowerSeq(c.triggers[2].conditions[k].pattern))

\* With a classifier that says no, a smart condition whose keyword occurs in
\* the message did not match.
C20_WitnessClassifier ==
    \E s \in Slots :
        LET c == calls[s]
        IN /\ ai = "net"
           /\ \E i \in 1..Len(c.triggers) : \E k \in 1..Len(c.triggers[i].conditions) :
                /\ c.triggers[i].conditions[k].type = "smart"
                /\ <<i, k>> \in Range(c.evaluated)
                /\ <<i, k>> \notin c.matched
                /\ KeywordOccurs(c.triggers[i].conditions[k].pattern, c.text)

----------------------------------------------------------------------------
(* C12: validation at creation *)

\* What must not be created: a name of more than 50 characters, a pattern
\* of more than 500, a response of more than 1000, a regex that does not
\* compile
Invalid(name, pattern, response, trigger_type) ==
    \/ Len(name) > 50
    \/ Len(pattern) > 500
    \/ Len(response) > 1000
    \/ trigger_type = "regex" /\ ~ReCompiles(pattern)

InvalidTrigger(t) ==
    \E k \in 1..Len(t.conditions), j \in 1..Len(t.responses) :
        Invalid(t.name, t.conditions[k].pattern, t.responses[j].text, t.conditions[k].type)

C12_WitnessAtTheLimit ==
    \E s \in Slots :
        /\ creates[s].pc = "returned" /\ creates[s].inserted
        /\ Len(creates[s].name) = 50 /\ Len(creates[s].response) = 1000

----------------------------------------------------------------------------
(* C13: unique names *)

\* C13: no two triggers of one chat have the same name, whoever created
\* them: a create with a name that exists in the chat is rejected.
C13_NamesUnique ==
    \A chat \in DOMAIN db :
        \A i \in 1..Len(db[chat]), j \in 1..Len(db[chat]) :
            i # j => db[chat][i].name # db[chat][j].name

----------------------------------------------------------------------------
(* C15: read your writes through the cache *)

----------------------------------------------------------------------------
(* C14: creation quota *)

----------------------------------------------------------------------------
(* C18: the dispatch leaves the definitions alone *)

BotDefinition(t) ==
    [name |-> t.name, pattern |-> t.pattern, response |-> t.response, type |-> t.type,
     created_by |-> t.created_by]

\* The same of _check_triggers: a message changes the usage_count of a
\* trigger of the dict and nothing else of it.
C18_BotDefinitionsUntouched ==
    [][ bot_triggers'.op = "message" =>
          /\ Len(bot_triggers'.global) = Len(bot_triggers.global)
          /\ \A k \in 1..Len(bot_triggers.global) :
                BotDefinition(bot_triggers'.global[k]) = BotDefinition(bot_triggers.global[k])
      ]_vars

----------------------------------------------------------------------------
(* C21, C30: the probability gate *)

\* The draws random.random() gave the invocation for the trigger at i
DrawsOf(c, i) == { c.drawn[k][2] : k \in { j \in 1..Len(c.drawn) : c.drawn[j][1] = i } }

\* The invocation has passed every gate before the probability gate for the
\* trigger at i: the cooldown lookup found nothing, and the cap, if the
\* trigger has one, was read and not reached
PassedBeforeProbability(c, i) ==
    /\ <<i, "cooldowns">> \in c.reads
    /\ <<i, "cooldown">> \notin c.skipped
    /\ c.triggers[i].max_uses_per_day > 0 =>
          <<i, "usage">> \in c.reads /\ <<i, "cap">> \notin c.skipped

\* The trigger at i was let through to the evaluation of its conditions
Admitted(c, i) == <<i, 1>> \in Range(c.evaluated) \/ (c.idx = i /\ c.pc = "match")

\* C21. Whenever the earlier gates let a message through to a trigger, a
\* trigger with probability 1.0 is admitted to the conditions without any
\* draw of the random source, and a trigger with probability p < 1.0 gets
\* exactly one draw d and is rejected exactly when d > p, admitted otherwise.
C21_ProbabilityGate ==
    \A s \in Slots : \A i \in 1..Len(calls[s].triggers) :
        LET c == calls[s]
            trigger == c.triggers[i]
            rejected == <<i, "probability">> \in c.skipped
        IN /\ rejected => PassedBeforeProbability(c, i)
           /\ trigger.probability = 100 =>
                 /\ DrawsOf(c, i) = {}
                 /\ ~rejected
                 /\ PassedBeforeProbability(c, i) => Admitted(c, i)
           /\ trigger.probability \in 0..99 =>
                 /\ PassedBeforeProbability(c, i) <=> DrawsOf(c, i) # {}
                 /\ Cardinality({ k \in 1..Len(c.drawn) : c.drawn[k][1] = i }) <= 1
                 /\ \A d \in DrawsOf(c, i) :
                       /\ rejected <=> d > trigger.probability
                       /\ ~rejected <=> Admitted(c, i)
                 /\ rejected => Silent(c, i)

\* A trigger of probability 0.5 was rejected on a draw above 0.5 and the
\* loop went on
C21_Witness ==
    \E s \in Slots : \E i \in 1..Len(calls[s].triggers) :
        /\ calls[s].triggers[i].probability = 50
        /\ DrawsOf(calls[s], i) = {99}
        /\ <<i, "probability">> \in calls[s].skipped
        /\ Evaluated(calls[s], i)

\* A trigger of probability 0.5 drew exactly 0.5, was admitted and fired
C21_WitnessAdmittedAtEqual ==
    \E s \in Slots : \E i \in 1..Len(calls[s].triggers) :
        /\ calls[s].triggers[i].probability = 50
        /\ DrawsOf(calls[s], i) = {50}
        /\ i \in Range(calls[s].fired)

\* A trigger of probability 1.0 fired in an invocation that drew nothing
C21_WitnessNoDraw ==
    \E s \in Slots : \E i \in 1..Len(calls[s].triggers) :
        /\ calls[s].triggers[i].probability = 100
        /\ i \in Range(calls[s].fired)
        /\ calls[s].drawn = <<>>
        /\ calls[s].pc = "done"

\* C30. A trigger with probability 0.0 never fires: whatever the draw in
\* [0, 1), a draw of exactly 0 included, the gate rejects it.
C30_ZeroNeverFires ==
    \A s \in Slots : \A i \in 1..Len(calls[s].triggers) :
        calls[s].triggers[i].probability = 0 =>
            /\ i \notin Range(calls[s].fired)
            /\ \A d \in DrawsOf(calls[s], i) : <<i, "probability">> \in calls[s].skipped

\* A trigger with probability 0.0 was rejected on a positive draw
C30_RejectedOnPositiveDraw ==
    \E s \in Slots : \E i \in 1..Len(calls[s].triggers) :
        /\ calls[s].triggers[i].probability = 0
        /\ DrawsOf(calls[s], i) = {50}
        /\ <<i, "probability">> \in calls[s].skipped

----------------------------------------------------------------------------
(* C22: zero means unlimited *)

\* A trigger that no gate can hold back: active, no cooldown, no cap,
\* probability 1.0, neither admin-only nor mention-only
Unlimited(trigger) ==
    /\ trigger.is_active
    /\ trigger.cooldown_seconds = 0
    /\ trigger.max_uses_per_day = 0
    /\ trigger.probability = 100
    /\ ~trigger.require_mention
    /\ ~trigger.admin_only

\* C22. Zero means unlimited: a trigger with cooldown_seconds = 0 never gets
\* a cooldown entry and is never rejected by the cooldown gate; a trigger
\* with max_uses_per_day = 0 is never rejected by the cap; and an unlimited
\* trigger fires on every matching message that the loop brings to it,
\* whatever it has fired before.
C22_ZeroMeansUnlimited ==
    /\ \A key \in DOMAIN cooldowns : \A t \in Range(triggers_cache[key[2]]) :
          t.id = key[1] => t.cooldown_seconds > 0
    /\ \A s \in Slots : \A i \in 1..Len(calls[s].triggers) :
          LET c == calls[s]
              trigger == c.triggers[i]
          IN /\ trigger.cooldown_seconds = 0 =>
                   WritesOf(c, i, "cooldowns") = 0 /\ <<i, "cooldown">> \notin c.skipped
             /\ trigger.max_uses_per_day = 0 => <<i, "cap">> \notin c.skipped
             /\ Unlimited(trigger) /\ Matches(trigger, c.text) /\ Evaluated(c, i) =>
                   /\ i \in Range(c.fired)
                   /\ CountOf(c.out_src, i) = Len(trigger.responses)
                   /\ \A gate \in {"inactive", "admin", "mention", "cooldown", "cap",
                                   "probability", "nomatch"} : <<i, gate>> \notin c.skipped

\* An unlimited trigger fires for the third time on the same day, at the
\* very second of the invocation before, and leaves no cooldown entry
C22_Witness ==
    \E s \in Slots : \E i \in 1..Len(calls[s].triggers) :
        LET c == calls[s]
            trigger == c.triggers[i]
            key == UsageKey(trigger.id, c.chat_id, Today(c.at))
        IN /\ Unlimited(trigger)
           /\ c.pc = "done"
           /\ i \in Range(c.fired)
           /\ key \in DOMAIN c.pre_usage /\ c.pre_usage[key] = 2
           /\ usage[key] = 3
           /\ now = 0
           /\ \A k \in DOMAIN cooldowns : k[1] # trigger.id

----------------------------------------------------------------------------
(* C24: the order of the gates *)

\* The loop has taken up the trigger at i and is past its first three gates
Reached(c, i) == c.idx > i \/ (c.idx = i /\ c.pc # "gates")

\* The six gates in the order the spec gives them
GateOrder == <<"inactive", "admin", "mention", "cooldown", "cap", "probability">>

\* C24. For each trigger the gates apply in the order is_active, admin_only,
\* require_mention, cooldown, daily cap, probability, conditions, and the
\* first that rejects ends the trigger: the cooldown lookup is issued exactly
\* when the first three gates pass, today's usage is read exactly when the
\* trigger is not on cooldown and has max_uses_per_day > 0, a random draw is
\* made only when every earlier gate passed and probability < 1.0, and no
\* condition is evaluated for a trigger that a gate rejected.
C24_GateOrder ==
    \A s \in Slots : \A i \in 1..Len(calls[s].triggers) :
        LET c == calls[s]
            trigger == c.triggers[i]
            rejectedAt(g) == <<i, g>> \in c.skipped
            firstThree == /\ trigger.is_active
                          /\ trigger.admin_only => c.is_admin
                          /\ trigger.require_mention => c.is_mention
            capRead == c.idx > i \/ (c.idx = i /\ c.pc \notin {"gates", "cap"})
        IN /\ rejectedAt("inactive") <=> Reached(c, i) /\ ~trigger.is_active
           /\ rejectedAt("admin") <=>
                 Reached(c, i) /\ trigger.is_active /\ trigger.admin_only /\ ~c.is_admin
           /\ rejectedAt("mention") <=>
                 /\ Reached(c, i) /\ trigger.is_active
                 /\ trigger.admin_only => c.is_admin
                 /\ trigger.require_mention /\ ~c.is_mention
           /\ <<i, "cooldowns">> \in c.reads <=> Reached(c, i) /\ firstThree
           /\ rejectedAt("cooldown") => <<i, "cooldowns">> \in c.reads
           /\ <<i, "usage">> \in c.reads <=>
                 /\ <<i, "cooldowns">> \in c.reads /\ ~rejectedAt("cooldown")
                 /\ trigger.max_uses_per_day > 0
                 /\ capRead
           /\ rejectedAt("cap") => <<i, "usage">> \in c.reads
           /\ DrawsOf(c, i) # {} =>
                 PassedBeforeProbability(c, i) /\ trigger.probability \in 0..99
           /\ rejectedAt("probability") => DrawsOf(c, i) # {}
           /\ \A j, k \in 1..Len(GateOrder) :
                 rejectedAt(GateOrder[j]) /\ rejectedAt(GateOrder[k]) => j = k
           /\ (\E j \in 1..Len(GateOrder) : rejectedAt(GateOrder[j])) =>
                 /\ \A k \in 1..Len(trigger.conditions) : <<i, k>> \notin Range(c.evaluated)
                 /\ Silent(c, i)
           /\ Admitted(c, i) =>
                 /\ PassedBeforeProbability(c, i)
                 /\ trigger.probability \in 0..99 => DrawsOf(c, i) # {}

\* A trigger with a cap and a probability below 1.0 was rejected on
\* cooldown: the lookup was issued, today's usage was not read, nothing was
\* drawn and no condition was evaluated
C24_Witness ==
    \E s \in Slots : \E i \in 1..Len(calls[s].triggers) :
        LET c == calls[s]
            trigger == c.triggers[i]
        IN /\ trigger.max_uses_per_day > 0 /\ trigger.probability \in 0..99
           /\ <<i, "cooldown">> \in c.skipped
           /\ <<i, "cooldowns">> \in c.reads
           /\ <<i, "usage">> \notin c.reads
           /\ DrawsOf(c, i) = {}
           /\ c.pc = "done"

\* A trigger rejected at the cap: both lookups were issued and nothing drawn
C24_WitnessCap ==
    \E s \in Slots : \E i \in 1..Len(calls[s].triggers) :
        LET c == calls[s]
        IN /\ <<i, "cap">> \in c.skipped
           /\ {<<i, "cooldowns">>, <<i, "usage">>} \subseteq c.reads
           /\ c.drawn = <<>>
           /\ c.pc = "done"

\* A trigger that passed cooldown and cap, drew, and went on to its conditions
C24_WitnessDraw ==
    \E s \in Slots : \E i \in 1..Len(calls[s].triggers) :
        LET c == calls[s]
        IN /\ {<<i, "cooldowns">>, <<i, "usage">>} \subseteq c.reads
           /\ DrawsOf(c, i) # {}
           /\ <<i, 1>> \in Range(c.evaluated)

----------------------------------------------------------------------------
(* C27: what is recorded is emitted *)

\* C27. Recorded implies emitted: when an invocation has set a cooldown or
\* incremented the daily usage of a trigger, the list it returns contains
\* that trigger's responses, also when a later trigger of the same batch
\* raises an error.
C27_RecordedImpliesEmitted ==
    \A s \in Slots : \A i \in 1..Len(calls[s].triggers) :
        LET c == calls[s]
        IN c.pc = "done" /\ (\E k \in 1..Len(c.writes) : c.writes[k].idx = i) =>
              CountOf(c.result_src, i) = Len(c.triggers[i].responses)

\* An invocation that recorded a trigger and returned its response
C27_EmittedWhenNothingRaises ==
    \E s \in Slots : \E i \in 1..Len(calls[s].triggers) :
        LET c == calls[s]
        IN /\ c.pc = "done" /\ ~c.aborted
           /\ WritesOf(c, i, "usage") = 1
           /\ CountOf(c.result_src, i) = Len(c.triggers[i].responses)

----------------------------------------------------------------------------
(* C25: the scope of the limiter state *)

\* The keys of a table that the invocation has written
WrittenKeys(c, table) ==
    { c.writes[k].key : k \in { j \in 1..Len(c.writes) : c.writes[j].table = table } }

\* C25. The scope of the limiter state: an invocation for chat C and user U
\* sees only triggers of chat C; it is held back by a cooldown only when the
\* entry of exactly (trigger, C, U) is unexpired; the cooldown entries it
\* writes are those of (trigger, C, U) and the usage counters it changes
\* those of (trigger, C); every other cooldown entry and usage counter, of
\* another user, another trigger or another chat, is as it was.
C25_LimiterScope ==
    \A s \in Slots :
        LET c == calls[s]
        IN /\ \A i \in 1..Len(c.triggers) :
                 /\ c.triggers[i].chat_id = c.chat_id
                 /\ <<i, "cooldown">> \in c.skipped =>
                       LET key == <<c.triggers[i].id, c.chat_id, c.user_id>>
                       IN key \in DOMAIN c.pre_cooldowns /\ c.at < c.pre_cooldowns[key]
           /\ \A k \in 1..Len(c.writes) :
                 LET w == c.writes[k]
                 IN /\ w.idx \in Range(c.fired)
                    /\ w.key[1] = c.triggers[w.idx].id
                    /\ w.key[2] = c.chat_id
                    /\ w.table = "cooldowns" => w.key[3] = c.user_id
                    /\ w.table = "usage" => w.key[3] = Today(c.at)
           /\ InFlight(s) =>
                 /\ \A key \in (DOMAIN usage \cup DOMAIN c.pre_usage)
                                  \ WrittenKeys(c, "usage") :
                       /\ key \in DOMAIN usage /\ key \in DOMAIN c.pre_usage
                       /\ usage[key] = c.pre_usage[key]
                 /\ \A key \in DOMAIN cooldowns \ WrittenKeys(c, "cooldowns") :
                       /\ key \in DOMAIN c.pre_cooldowns
                       /\ cooldowns[key] = c.pre_cooldowns[key]

\* A trigger fires for one user of a chat while its cooldown for the other
\* user of the chat is running, and the other user's entry stays
C25_Witness ==
    \E s \in Slots : \E i \in 1..Len(calls[s].triggers) : \E other \in Users :
        LET c == calls[s]
            key == <<c.triggers[i].id, c.chat_id, other>>
        IN /\ other # c.user_id
           /\ c.pc = "done"
           /\ i \in Range(c.fired)
           /\ key \in DOMAIN c.pre_cooldowns /\ c.at < c.pre_cooldowns[key]
           /\ key \in DOMAIN cooldowns /\ cooldowns[key] = c.pre_cooldowns[key]

\* A trigger of chat 2 fires for a user whose cooldown in chat 1 is running,
\* and the counters of chat 1 stay
C25_WitnessOtherChat ==
    \E s \in Slots : \E i \in 1..Len(calls[s].triggers) :
        LET c == calls[s]
        IN /\ c.chat_id = 2
           /\ c.pc = "done"
           /\ i \in Range(c.fired)
           /\ \E key \in DOMAIN c.pre_cooldowns :
                 key[2] = 1 /\ key[3] = c.user_id /\ c.at < c.pre_cooldowns[key]
           /\ \E key \in DOMAIN usage : key[2] = 1 /\ usage[key] = 1

----------------------------------------------------------------------------
(* _check_condition on its own, for the four textual condition types *)

TextualTypes == {"exact", "contains", "starts", "ends"}

CheckPatterns ==
    { Hi, <<"H", "I">>, <<"H", "i">>, Yo, <<"i", " ", "y">>, <<"h">>, <<>> }

CheckTexts ==
    { Hi, <<"H", "I">>, <<"h", "I">>, Yo, HiYo, <<"H", "I", " ", "y", "o">>,
      <<"h", "i", "y", "o">>, <<"y", "o", " ", "H", "i">>, <<"y", "o", "h", "i">>, <<>> }

InitCheck ==
    /\ NoDispatch
    /\ db = triggers_cache
    /\ creates = [s \in Slots |-> IdleCreate]
    /\ bot_triggers = IdleBot
    /\ rendering = IdleRendering
    /\ \E type \in TextualTypes, pattern \in CheckPatterns, text \in CheckTexts,
          case_sensitive \in BOOLEAN, whole_words \in BOOLEAN :
         checking = [pc |-> "ready",
                     condition |-> [Condition(type, pattern) EXCEPT
                                       !.case_sensitive = case_sensitive,
                                       !.whole_words = whole_words],
                     text |-> text, result |-> FALSE, again |-> FALSE]

\* The call of _check_condition
CheckConditionCall ==
    /\ checking.pc = "ready"
    /\ checking' = [checking EXCEPT
           !.pc = "checked",
           !.result = CheckCondition(checking.condition, checking.text)]
    /\ UNCHANGED <<now, triggers_cache, cooldowns, usage, calls, ncalls, fireTimes,
                   fireCount, ai, db, creates, bot_triggers, rendering>>

\* The same call once more
CheckConditionAgain ==
    /\ checking.pc = "checked"
    /\ checking' = [checking EXCEPT
           !.pc = "done",
           !.again = CheckCondition(checking.condition, checking.text)]
    /\ UNCHANGED <<now, triggers_cache, cooldowns, usage, calls, ncalls, fireTimes,
                   fireCount, ai, db, creates, bot_triggers, rendering>>

NextCheck == CheckConditionCall \/ CheckConditionAgain

SpecCheck == InitCheck /\ [][NextCheck]_vars

----------------------------------------------------------------------------
(* C26: the textual condition types *)

\* Two symbols are the same, or the same but for case when case is ignored
SameSymbol(case_sensitive, a, b) ==
    a = b \/ (~case_sensitive /\ {a, b} \in {{"h", "H"}, {"i", "I"}})

\* Two texts are the same, symbol by symbol
SameText(case_sensitive, a, b) ==
    Len(a) = Len(b) /\ \A k \in 1..Len(a) : SameSymbol(case_sensitive, a[k], b[k])

\* p stands in s from the position after `offset` on
StandsAt(case_sensitive, p, s, offset) ==
    /\ offset >= 0 /\ offset + Len(p) <= Len(s)
    /\ \A k \in 1..Len(p) : SameSymbol(case_sensitive, s[offset + k], p[k])

\* What each textual type is to decide
Expected(condition, text) ==
    LET cs == condition.case_sensitive
        p == condition.pattern
    IN CASE condition.type = "exact" -> SameText(cs, text, p)
         [] condition.type = "starts" -> StandsAt(cs, p, text, 0)
         [] condition.type = "ends" -> StandsAt(cs, p, text, Len(text) - Len(p))
         [] condition.type = "contains" ->
                \E offset \in 0..Len(text) : StandsAt(cs, p, text, offset)

C26_WitnessWholeWords ==
    /\ checking.pc = "done"
    /\ checking.condition.type = "contains" /\ checking.condition.whole_words
    /\ checking.condition.pattern = Hi
    /\ checking.text = <<"h", "i", "y", "o">>
    /\ ~checking.result
    /\ CheckCondition([checking.condition EXCEPT !.whole_words = FALSE], checking.text)

\* The whole-words Contains matches, as the plain one does
C26_WitnessWholeWordsMatch ==
    /\ checking.pc = "done"
    /\ checking.condition.type = "contains" /\ checking.condition.whole_words
    /\ checking.condition.pattern = <<"H", "I">>
    /\ checking.text = <<"y", "o", " ", "H", "i">>
    /\ checking.result

\* A case-sensitive StartsWith rejects the prefix in another case
C26_WitnessCaseSensitive ==
    /\ checking.pc = "done"
    /\ checking.condition.type = "starts" /\ checking.condition.case_sensitive
    /\ checking.condition.pattern = Hi
    /\ checking.text = <<"H", "I", " ", "y", "o">>
    /\ ~checking.result

----------------------------------------------------------------------------
(* C28: the result of create_trigger and the table *)

\* C28. The result of create_trigger agrees with the table: a call returns
\* success only if it has inserted the trigger's row, and a call that returns
\* a failure has inserted no row, whatever was raised after the INSERT.
C28_ResultAgreesWithPersistence ==
    \A s \in Slots :
        creates[s].pc \in {"done", "returned"} =>
            /\ creates[s].result = "ok" => creates[s].inserted
            /\ creates[s].result # "ok" => ~creates[s].inserted

\* A call that was given a member of TriggerType returned a failure and
\* inserted nothing
C28_FailureBeforeInsert ==
    \E s \in Slots :
        /\ creates[s].pc = "returned"
        /\ creates[s].trigger_type \in TriggerTypeMembers
        /\ creates[s].result = "error" /\ ~creates[s].inserted

----------------------------------------------------------------------------
(* C29: ownership in the JSON command layer *)

\* The entry of the dict after the step that still stands for trigger t:
\* same name, pattern, response and owner
StillStored(t) ==
    \E j \in 1..Len(bot_triggers'.global) :
        LET u == bot_triggers'.global[j]
        IN /\ u.name = t.name /\ u.pattern = t.pattern
           /\ u.response = t.response /\ u.created_by = t.created_by

\* C29. In the JSON command layer a trigger's pattern, response and owner
\* are changed, or the trigger removed, only by a command of its creator or
\* of an admin: no /trigger_del and no /trigger_add of another user who is
\* no admin touches it.
C29_OwnerOrAdminOnly ==
    [][\A k \in 1..Len(bot_triggers.global) :
          LET t == bot_triggers.global[k]
          IN ~StillStored(t) =>
                \/ bot_triggers'.user_id = t.created_by
                \/ bot_triggers'.user_id \in AdminIds
      ]_vars

\* A /trigger_del of a user who is neither the creator nor an admin was
\* refused and left the dict as it was
C29_DeleteRefused ==
    /\ bot_triggers.op = "del" /\ bot_triggers.reply = "forbidden"
    /\ bot_triggers.user_id \notin AdminIds
    /\ ~bot_triggers.changed
    /\ \E k \in 1..Len(bot_triggers.global) :
          bot_triggers.global[k].created_by # bot_triggers.user_id

----------------------------------------------------------------------------
(* C23: removal *)

\* C23. Removal is final and logical: a removed trigger answers no later
\* message, and the usage counted for it before the removal stays stored.
C23_RemovalKeepsHistory ==
    [][/\ bot_triggers'.op = "message" =>
             \E k \in 1..Len(bot_triggers.global) :
                 bot_triggers'.global[k].usage_count
                     = bot_triggers.global[k].usage_count + 1
       /\ bot_triggers'.op = "del" =>
             \A k \in 1..Len(bot_triggers.global) :
                 LET t == bot_triggers.global[k]
                 IN t.usage_count > 0 =>
                       \E j \in 1..Len(bot_triggers'.global) :
                           /\ bot_triggers'.global[j].name = t.name
                           /\ bot_triggers'.global[j].usage_count = t.usage_count
      ]_vars

\* A /trigger_del has removed the last trigger of the dict
C23_Removed ==
    /\ bot_triggers.op = "del" /\ bot_triggers.reply = "deleted"
    /\ bot_triggers.global = <<>>

====
